---- MODULE Spec2Model ----
(***************************************************************************)
(* Adaptive image preprocessing of backend/service/preprocess_image.py:    *)
(* DocumentAnalyzer scoring and recommendations, DynamicPreprocessor       *)
(* (pass 1), the option merger, _apply_user_overrides (pass 2) and the     *)
(* entry point dynamic_preprocess_image.                                   *)
(*                                                                         *)
(* Images are abstract: an image is the sequence of operator applications  *)
(* that produced it from the decoded input, each with the parameters it    *)
(* was called with, plus its number of channels.  Pixel arithmetic is      *)
(* modelled concretely where the code's control logic depends on it        *)
(* (cv2.convertScaleAbs).                                                  *)
(***************************************************************************)
EXTENDS Integers, Sequences, FiniteSets, TLC

VARIABLES
    mergeCall,   \* one call of _merge_preprocessing_options: arguments and result
    scoreCall,   \* one analysis: levels, quality_score, recommendations, auto options
    pixelCall,   \* one pixel through the brightness operator of pass 1 and pass 2
    st,          \* one invocation of dynamic_preprocess_image
    handler,     \* one OCR request handler around an invocation
    analyzers,   \* DocumentAnalyzer instances and the analyses they returned
    invocations  \* two concurrent invocations and the objects they allocated

vars == <<mergeCall, scoreCall, pixelCall, st, handler, analyzers, invocations>>

(***************************************************************************)
(* Python values.  A value carries its type tag t, its number n (bool and  *)
(* int) and its items d (dict).  bool is a subclass of int in Python, so   *)
(* the order of the isinstance tests in the code matters and is kept.      *)
(***************************************************************************)
PyNone == [t |-> "none", n |-> 0, d |-> <<>>]

PyBool(b) == [t |-> "bool", n |-> IF b THEN 1 ELSE 0, d |-> <<>>]

PyInt(i) == [t |-> "int", n |-> i, d |-> <<>>]

PyDict(f) == [t |-> "dict", n |-> 0, d |-> f]

\* a non-numeric str such as "high"
PyStr == [t |-> "str", n |-> 0, d |-> <<>>]

IsDict(v) == v.t = "dict"

\* Python truth value: None, False, 0 and {} are falsy
Truthy(v) ==
    CASE v.t = "none" -> FALSE
      [] v.t = "bool" -> v.n # 0
      [] v.t = "int"  -> v.n # 0
      [] v.t = "dict" -> DOMAIN v.d # {}
      [] OTHER        -> TRUE

\* a mapping literal with one or two keys
Map1(k, v) == [x \in {k} |-> v]

Map2(k1, v1, k2, v2) == [x \in {k1, k2} |-> IF x = k1 THEN v1 ELSE v2]

Map3(k1, v1, k2, v2, k3, v3) ==
    [x \in {k1, k2, k3} |-> IF x = k1 THEN v1 ELSE IF x = k2 THEN v2 ELSE v3]

EmptyMap == <<>>

\* dict.get(k, default)
DictGet(m, k, default) == IF k \in DOMAIN m THEN m[k] ELSE default

\* dict(a) followed by .update(b)
DictUpdate(a, b) ==
    [k \in DOMAIN a \cup DOMAIN b |-> IF k \in DOMAIN b THEN b[k] ELSE a[k]]

\* every mapping from a subset of keys to values
Mappings(keys, values) == UNION { [ks -> values] : ks \in SUBSET keys }

(***************************************************************************)
(* _merge_preprocessing_options                                            *)
(***************************************************************************)
\* mutant: nested option dicts are replaced whole instead of merged one level deep
MergeReplaceNested(auto_opts, user_opts) ==
    IF ~Truthy(user_opts) THEN auto_opts
    ELSE DictUpdate(auto_opts, user_opts.d)

\* mutant: an absent user mapping yields an empty result
MergeDropsAuto(auto_opts, user_opts) ==
    IF ~Truthy(user_opts) THEN EmptyMap
    ELSE DictUpdate(auto_opts, user_opts.d)

\* mutant: only the keys pass 2 reads are taken from the user mapping
MergeRecognizedOnly(auto_opts, user_opts) ==
    IF ~Truthy(user_opts) THEN auto_opts
    ELSE DictUpdate(auto_opts,
                    [k \in DOMAIN user_opts.d
                           \cap {"grayscale", "denoise", "contrast", "brightness", "sharpen"}
                       |-> user_opts.d[k]])

\* auto_opts is a mapping key -> value; user_opts is None or a dict value
_merge_preprocessing_options(auto_opts, user_opts) ==
    IF ~Truthy(user_opts) THEN auto_opts
    ELSE [k \in DOMAIN auto_opts \cup DOMAIN user_opts.d |->
            IF k \in DOMAIN user_opts.d
            THEN LET v == user_opts.d[k] IN
                 IF IsDict(v) /\ k \in DOMAIN auto_opts /\ IsDict(auto_opts[k])
                 THEN PyDict(DictUpdate(auto_opts[k].d, v.d))
                 ELSE v
            ELSE auto_opts[k]]

\* option values the merge is exercised on
NestedOptions ==
    { PyDict(EmptyMap),
      PyDict(Map3("strength", PyInt(3), "template", PyInt(7), "search", PyInt(21))),
      PyDict(Map1("strength", PyInt(9))),
      PyDict(Map2("template", PyInt(5), "search", PyInt(11))) }

ScalarOptions == { PyBool(TRUE), PyInt(30) }

MergeKeys == {"denoise", "contrast"}

MergeMappings == Mappings(MergeKeys, NestedOptions \cup ScalarOptions)

MergeIdle == [pc |-> "idle", auto_opts |-> EmptyMap, user_opts |-> PyNone, merged |-> EmptyMap]

ScoreIdle == [pc |-> "idle"]

PixelIdle == [pc |-> "idle"]

StIdle == [pc |-> "idle"]

HandlerIdle == [pc |-> "idle"]

AnalyzersIdle == [pc |-> "idle"]

InvocationsIdle == [pc |-> "idle"]

\* the parts of the state a separate check does not use
RestIdle == handler = HandlerIdle /\ analyzers = AnalyzersIdle /\ invocations = InvocationsIdle

InitMerge ==
    /\ \E a \in MergeMappings, u \in {PyNone} \cup {PyDict(m) : m \in MergeMappings} :
          mergeCall = [pc |-> "call", auto_opts |-> a, user_opts |-> u, merged |-> EmptyMap]
    /\ scoreCall = ScoreIdle
    /\ pixelCall = PixelIdle
    /\ st = StIdle
    /\ RestIdle

Merge ==
    /\ mergeCall.pc = "call"
    /\ mergeCall' = [mergeCall EXCEPT
          !.pc = "returned",
          !.merged = _merge_preprocessing_options(mergeCall.auto_opts, mergeCall.user_opts)]
    /\ UNCHANGED <<scoreCall, pixelCall, st, handler, analyzers, invocations>>

NextMerge == Merge

SpecMerge == InitMerge /\ [][NextMerge]_vars

\* C1: with a non-empty user_opts, every non-dict user value is the merged value;
\* for a key that is a dict on both sides every user sub-key holds the user's value
\* and every sub-key only the auto dict has keeps the auto value; a key only
\* auto_opts has keeps its auto value.
MergeUserWins ==
    (mergeCall.pc = "returned" /\ Truthy(mergeCall.user_opts)) =>
        LET a == mergeCall.auto_opts
            u == mergeCall.user_opts.d
            m == mergeCall.merged
        IN /\ \A k \in DOMAIN u :
                /\ k \in DOMAIN m
                /\ ~IsDict(u[k]) => m[k] = u[k]
                /\ (IsDict(u[k]) /\ k \in DOMAIN a /\ IsDict(a[k])) =>
                      /\ IsDict(m[k])
                      /\ \A sk \in DOMAIN u[k].d :
                            sk \in DOMAIN m[k].d /\ m[k].d[sk] = u[k].d[sk]
                      /\ \A sk \in DOMAIN a[k].d \ DOMAIN u[k].d :
                            sk \in DOMAIN m[k].d /\ m[k].d[sk] = a[k].d[sk]
           /\ \A k \in DOMAIN a \ DOMAIN u : k \in DOMAIN m /\ m[k] = a[k]

\* the spec's scenario: {"denoise": {strength 3, template 7, search 21}} merged with
\* {"denoise": {strength 9}} gives {"denoise": {strength 9, template 7, search 21}}
MergeUserWinsWitness ==
    /\ mergeCall.pc = "returned"
    /\ mergeCall.auto_opts =
          Map1("denoise", PyDict(Map3("strength", PyInt(3), "template", PyInt(7), "search", PyInt(21))))
    /\ mergeCall.user_opts = PyDict(Map1("denoise", PyDict(Map1("strength", PyInt(9)))))
    /\ mergeCall.merged =
          Map1("denoise", PyDict(Map3("strength", PyInt(9), "template", PyInt(7), "search", PyInt(21))))

\* C2: merging with None or with {} returns a mapping equal to auto_opts
MergeEmptyIsAuto ==
    (mergeCall.pc = "returned" /\ mergeCall.user_opts \in {PyNone, PyDict(EmptyMap)}) =>
        mergeCall.merged = mergeCall.auto_opts

MergeEmptyIsAutoWitness ==
    /\ mergeCall.pc = "returned"
    /\ mergeCall.user_opts = PyDict(EmptyMap)
    /\ DOMAIN mergeCall.auto_opts = MergeKeys
    /\ mergeCall.merged = mergeCall.auto_opts

(***************************************************************************)
(* DocumentAnalyzer: classification of the raw measurements into levels.   *)
(* Measurements are integers: variances and means as measured, ratios and  *)
(* Michelson contrast in percent, edge density in permille, angles in      *)
(* tenths of a degree.                                                     *)
(***************************************************************************)
Abs(x) == IF x < 0 THEN -x ELSE x

_assess_noise_level(laplacian_var, noise_variance) ==
    IF laplacian_var > 1000 /\ noise_variance > 50 THEN "high"
    ELSE IF laplacian_var > 500 /\ noise_variance > 20 THEN "medium"
    ELSE "low"

_assess_contrast(rms_contrast, michelson_pct) ==
    IF rms_contrast > 60 /\ michelson_pct > 70 THEN "high"
    ELSE IF rms_contrast > 30 /\ michelson_pct > 40 THEN "medium"
    ELSE "low"

_assess_brightness(mean_brightness, dark_pct, bright_pct) ==
    IF mean_brightness < 80
    THEN (IF dark_pct > 30 THEN "very_dark" ELSE "dark")
    ELSE IF mean_brightness > 180
    THEN (IF bright_pct > 30 THEN "overexposed" ELSE "bright")
    ELSE "normal"

\* the level _detect_skew gives an angle (tenths of a degree)
SkewLevel(angle) ==
    IF Abs(angle) > 50 THEN "high"
    ELSE IF Abs(angle) > 10 THEN "medium"
    ELSE "low"

_classify_document_type(edge_permille, text_like_contours) ==
    IF edge_permille > 50 /\ text_like_contours > 50 THEN "text_heavy"
    ELSE IF edge_permille > 100 THEN "mixed_content"
    ELSE "simple_text"

_assess_blur(laplacian_var) ==
    IF laplacian_var > 800 THEN "sharp"
    ELSE IF laplacian_var > 200 THEN "moderate"
    ELSE "blurry"

ContrastLevels == {"low", "medium", "high"}

BrightnessLevels == {"very_dark", "dark", "normal", "bright", "overexposed"}

NoiseLevels == {"low", "medium", "high"}

BlurLevels == {"sharp", "moderate", "blurry"}

SkewLevels == {"low", "medium", "high"}

DocumentTypes == {"text_heavy", "mixed_content", "simple_text"}

\* skew angles (tenths of a degree): none, 0.6, 2.0 and -12.0 degrees
Angles == {0, 6, 20, -120}

\* a table lookup with a default: {...}.get(key, default)
TableGet(table, key, default) == IF key \in DOMAIN table THEN table[key] ELSE default

Max(a, b) == IF a > b THEN a ELSE b

Min(a, b) == IF a < b THEN a ELSE b

\* mutant: the final clamp is lost and the contrast bonus for "high" is 35
QualityScoreUnclamped(analysis) ==
    50
    + TableGet([high |-> 35, medium |-> 15, low |-> 0], analysis.contrast_quality.level, 0)
    + TableGet([normal |-> 20, bright |-> 15, dark |-> 10, very_dark |-> 0, overexposed |-> 5],
               analysis.brightness_level.level, 0)
    + TableGet([low |-> 0, medium |-> -5, high |-> -15], analysis.noise_level.level, 0)
    + TableGet([sharp |-> 5, moderate |-> 0, blurry |-> -10], analysis.blur_level.level, 0)
    + TableGet([low |-> 0, medium |-> -2, high |-> -5], analysis.skew_angle.level, 0)

\* mutant: a blurry image loses 5 points instead of 10
QualityScoreBlurHalved(analysis) ==
    LET score ==
          50
          + TableGet([high |-> 25, medium |-> 15, low |-> 0], analysis.contrast_quality.level, 0)
          + TableGet([normal |-> 20, bright |-> 15, dark |-> 10, very_dark |-> 0, overexposed |-> 5],
                     analysis.brightness_level.level, 0)
          + TableGet([low |-> 0, medium |-> -5, high |-> -15], analysis.noise_level.level, 0)
          + TableGet([sharp |-> 5, moderate |-> 0, blurry |-> -5], analysis.blur_level.level, 0)
          + TableGet([low |-> 0, medium |-> -2, high |-> -5], analysis.skew_angle.level, 0)
    IN Max(0, Min(100, score))

\* mutant: high noise costs 45 points, so the sum can fall below 0
QualityScoreNoisePenalty45(analysis) ==
    LET score ==
          50
          + TableGet([high |-> 25, medium |-> 15, low |-> 0], analysis.contrast_quality.level, 0)
          + TableGet([normal |-> 20, bright |-> 15, dark |-> 10, very_dark |-> 0, overexposed |-> 5],
                     analysis.brightness_level.level, 0)
          + TableGet([low |-> 0, medium |-> -5, high |-> -45], analysis.noise_level.level, 0)
          + TableGet([sharp |-> 5, moderate |-> 0, blurry |-> -10], analysis.blur_level.level, 0)
          + TableGet([low |-> 0, medium |-> -2, high |-> -5], analysis.skew_angle.level, 0)
    IN Max(0, Min(100, score))

_calculate_quality_score(analysis) ==
    LET score ==
          50
          + TableGet([high |-> 25, medium |-> 15, low |-> 0], analysis.contrast_quality.level, 0)
          + TableGet([normal |-> 20, bright |-> 15, dark |-> 10, very_dark |-> 0, overexposed |-> 5],
                     analysis.brightness_level.level, 0)
          + TableGet([low |-> 0, medium |-> -5, high |-> -15], analysis.noise_level.level, 0)
          + TableGet([sharp |-> 5, moderate |-> 0, blurry |-> -10], analysis.blur_level.level, 0)
          + TableGet([low |-> 0, medium |-> -2, high |-> -5], analysis.skew_angle.level, 0)
    IN Max(0, Min(100, score))

\* a recommendation entry: a dict with enabled, priority and the operator's parameters
Rec(enabled, priority, params) ==
    [dict |-> TRUE, enabled |-> enabled, priority |-> priority, params |-> params]

\* the non-operator hint threshold_method: a str, not a dict
Hint(v) == [dict |-> FALSE, value |-> v]

\* insertion order of the recommendations dict (kept by later assignments)
RecKeys == <<"deskew", "denoise", "contrast", "brightness", "sharpen", "threshold_method">>

\* mutant: the overexposed correction gets the priority of the dark cases
RecommendationsOverexposedFirst(analysis) ==
    LET skew == analysis.skew_angle.level
        noise == analysis.noise_level.level
        brightness_level == analysis.brightness_level.level
    IN [ deskew |->
            IF skew \in {"medium", "high"}
            THEN Rec(TRUE, IF skew = "high" THEN 3 ELSE 2,
                     Map2("angle_threshold", 5, "max_angle", 100))
            ELSE Rec(FALSE, 0, EmptyMap),
         denoise |->
            IF noise \in {"medium", "high"}
            THEN Rec(TRUE, IF noise = "high" THEN 2 ELSE 1,
                     Map1("strength", IF noise = "high" THEN 3 ELSE 2))
            ELSE Rec(FALSE, 0, Map1("strength", 0)),
         contrast |->
            IF analysis.contrast_quality.level = "low"
            THEN Rec(TRUE, 2, Map1("adjustment", 30))
            ELSE Rec(FALSE, 0, Map1("adjustment", 0)),
         brightness |->
            IF brightness_level \in {"dark", "very_dark"}
            THEN Rec(TRUE, 2, Map1("adjustment", IF brightness_level = "very_dark" THEN 40 ELSE 20))
            ELSE IF brightness_level = "overexposed"
            THEN Rec(TRUE, 2, Map1("adjustment", -20))
            ELSE Rec(FALSE, 0, Map1("adjustment", 0)),
         sharpen |->
            IF analysis.blur_level.level = "blurry"
            THEN Rec(TRUE, 1, Map1("strength", 2))
            ELSE Rec(FALSE, 0, Map1("strength", 0)),
         threshold_method |->
            Hint(IF analysis.document_type.type = "text_heavy" THEN "adaptive" ELSE "otsu") ]

_generate_recommendations(analysis) ==
    LET skew == analysis.skew_angle.level
        noise == analysis.noise_level.level
        brightness_level == analysis.brightness_level.level
    IN [ deskew |->
            IF skew \in {"medium", "high"}
            THEN Rec(TRUE, IF skew = "high" THEN 3 ELSE 2,
                     Map2("angle_threshold", 5, "max_angle", 100))
            ELSE Rec(FALSE, 0, EmptyMap),
         denoise |->
            IF noise \in {"medium", "high"}
            THEN Rec(TRUE, IF noise = "high" THEN 2 ELSE 1,
                     Map1("strength", IF noise = "high" THEN 3 ELSE 2))
            ELSE Rec(FALSE, 0, Map1("strength", 0)),
         contrast |->
            IF analysis.contrast_quality.level = "low"
            THEN Rec(TRUE, 2, Map1("adjustment", 30))
            ELSE Rec(FALSE, 0, Map1("adjustment", 0)),
         brightness |->
            IF brightness_level \in {"dark", "very_dark"}
            THEN Rec(TRUE, 2, Map1("adjustment", IF brightness_level = "very_dark" THEN 40 ELSE 20))
            ELSE IF brightness_level = "overexposed"
            THEN Rec(TRUE, 1, Map1("adjustment", -20))
            ELSE Rec(FALSE, 0, Map1("adjustment", 0)),
         sharpen |->
            IF analysis.blur_level.level = "blurry"
            THEN Rec(TRUE, 1, Map1("strength", 2))
            ELSE Rec(FALSE, 0, Map1("strength", 0)),
         threshold_method |->
            Hint(IF analysis.document_type.type = "text_heavy" THEN "adaptive" ELSE "otsu") ]

\* the levels of an analysis, before quality_score and recommendations are added
Levels(contrast, brightness, noise, blur, angle, doc_type) ==
    [ contrast_quality |-> [level |-> contrast],
      brightness_level |-> [level |-> brightness],
      noise_level      |-> [level |-> noise],
      blur_level       |-> [level |-> blur],
      skew_angle       |-> [angle |-> angle, level |-> SkewLevel(angle)],
      document_type    |-> [type |-> doc_type] ]

\* analysis['quality_score'] and analysis['recommendations'] as analyze_document_quality adds them
WithScoreAndRecommendations(levels) ==
    [ contrast_quality |-> levels.contrast_quality,
      brightness_level |-> levels.brightness_level,
      noise_level      |-> levels.noise_level,
      blur_level       |-> levels.blur_level,
      skew_angle       |-> levels.skew_angle,
      document_type    |-> levels.document_type,
      quality_score    |-> _calculate_quality_score(levels),
      recommendations  |-> _generate_recommendations(levels) ]

\* mutant: grayscale is requested for text documents whatever the brightness
DeriveAutoGrayscaleAlways(analysis) ==
    LET q == analysis.quality_score
        noise == analysis.noise_level.level
        contrast == analysis.contrast_quality.level
        brightness == analysis.brightness_level.level
        blur == analysis.blur_level.level
        doc_type == analysis.document_type.type
        denoise == IF noise = "high" THEN Map1("denoise", PyDict(Map1("strength", PyInt(7))))
                   ELSE IF noise = "medium" THEN Map1("denoise", PyDict(Map1("strength", PyInt(4))))
                   ELSE IF noise = "low" /\ q < 45 THEN Map1("denoise", PyDict(Map1("strength", PyInt(3))))
                   ELSE EmptyMap
        con == IF contrast = "low" THEN Map1("contrast", PyInt(30))
               ELSE IF contrast = "medium" /\ q < 60 THEN Map1("contrast", PyInt(15))
               ELSE EmptyMap
        bri == IF brightness = "very_dark" THEN Map1("brightness", PyInt(40))
               ELSE IF brightness = "dark" THEN Map1("brightness", PyInt(20))
               ELSE IF brightness = "overexposed" THEN Map1("brightness", PyInt(-20))
               ELSE EmptyMap
        sha == IF blur = "blurry" /\ q < 65 THEN Map1("sharpen", PyInt(1)) ELSE EmptyMap
        gra == IF doc_type \in {"simple_text", "text_heavy"}
               THEN Map1("grayscale", PyBool(TRUE)) ELSE EmptyMap
    IN DictUpdate(DictUpdate(DictUpdate(DictUpdate(denoise, con), bri), sha), gra)

\* mutant: no brightness option for an overexposed image
DeriveAutoNoOverexposed(analysis) ==
    LET q == analysis.quality_score
        noise == analysis.noise_level.level
        contrast == analysis.contrast_quality.level
        brightness == analysis.brightness_level.level
        blur == analysis.blur_level.level
        doc_type == analysis.document_type.type
        denoise == IF noise = "high" THEN Map1("denoise", PyDict(Map1("strength", PyInt(7))))
                   ELSE IF noise = "medium" THEN Map1("denoise", PyDict(Map1("strength", PyInt(4))))
                   ELSE IF noise = "low" /\ q < 45 THEN Map1("denoise", PyDict(Map1("strength", PyInt(3))))
                   ELSE EmptyMap
        con == IF contrast = "low" THEN Map1("contrast", PyInt(30))
               ELSE IF contrast = "medium" /\ q < 60 THEN Map1("contrast", PyInt(15))
               ELSE EmptyMap
        bri == IF brightness = "very_dark" THEN Map1("brightness", PyInt(40))
               ELSE IF brightness = "dark" THEN Map1("brightness", PyInt(20))
               ELSE EmptyMap
        sha == IF blur = "blurry" /\ q < 65 THEN Map1("sharpen", PyInt(1)) ELSE EmptyMap
        gra == IF doc_type \in {"simple_text", "text_heavy"} /\ brightness # "overexposed"
               THEN Map1("grayscale", PyBool(TRUE)) ELSE EmptyMap
    IN DictUpdate(DictUpdate(DictUpdate(DictUpdate(denoise, con), bri), sha), gra)

_derive_auto_preprocessing_options(analysis) ==
    LET q == analysis.quality_score
        noise == analysis.noise_level.level
        contrast == analysis.contrast_quality.level
        brightness == analysis.brightness_level.level
        blur == analysis.blur_level.level
        doc_type == analysis.document_type.type
        denoise == IF noise = "high" THEN Map1("denoise", PyDict(Map1("strength", PyInt(7))))
                   ELSE IF noise = "medium" THEN Map1("denoise", PyDict(Map1("strength", PyInt(4))))
                   ELSE IF noise = "low" /\ q < 45 THEN Map1("denoise", PyDict(Map1("strength", PyInt(3))))
                   ELSE EmptyMap
        con == IF contrast = "low" THEN Map1("contrast", PyInt(30))
               ELSE IF contrast = "medium" /\ q < 60 THEN Map1("contrast", PyInt(15))
               ELSE EmptyMap
        bri == IF brightness = "very_dark" THEN Map1("brightness", PyInt(40))
               ELSE IF brightness = "dark" THEN Map1("brightness", PyInt(20))
               ELSE IF brightness = "overexposed" THEN Map1("brightness", PyInt(-20))
               ELSE EmptyMap
        sha == IF blur = "blurry" /\ q < 65 THEN Map1("sharpen", PyInt(1)) ELSE EmptyMap
        gra == IF doc_type \in {"simple_text", "text_heavy"} /\ brightness # "overexposed"
               THEN Map1("grayscale", PyBool(TRUE)) ELSE EmptyMap
    IN DictUpdate(DictUpdate(DictUpdate(DictUpdate(denoise, con), bri), sha), gra)

\* C6: for every combination of levels the quality score lies in [0, 100]
QualityScoreBounded ==
    scoreCall.pc \in {"analyzed", "planned", "derived"} =>
        (0 <= scoreCall.analysis.quality_score /\ scoreCall.analysis.quality_score <= 100)

\* the best case reaches the upper end of the range
QualityScoreBoundedWitness ==
    /\ scoreCall.pc = "analyzed"
    /\ scoreCall.levels.contrast_quality.level = "high"
    /\ scoreCall.levels.brightness_level.level = "normal"
    /\ scoreCall.levels.noise_level.level = "low"
    /\ scoreCall.levels.blur_level.level = "sharp"
    /\ scoreCall.levels.skew_angle.level = "low"
    /\ scoreCall.analysis.quality_score = 100

(***************************************************************************)
(* The brightness operator on one pixel.  cv2.convertScaleAbs computes     *)
(* saturate_cast<uchar>(|src * alpha + beta|); both passes call it with    *)
(* alpha = 1.0.                                                            *)
(***************************************************************************)
cv2_convertScaleAbs(src, beta) == Min(255, Abs(src + beta))

\* int(opts.get(key, 0) or 0): ok is FALSE when int() raises (a dict, a non-numeric str)
OptionInt(opts, key) ==
    LET v == DictGet(opts, key, PyInt(0)) IN
    IF ~Truthy(v) THEN [ok |-> TRUE, n |-> 0]
    ELSE IF v.t \in {"int", "bool"} THEN [ok |-> TRUE, n |-> v.n]
    ELSE [ok |-> FALSE, n |-> 0]

\* mutant: the adjustment is added without saturating to the uint8 range
BrightnessPixel1Unsaturated(pixel, config) ==
    pixel + DictGet(config.params, "adjustment", 0)

\* _apply_brightness on one pixel: beta is config.get('adjustment', 0)
BrightnessPixel1(pixel, config) ==
    cv2_convertScaleAbs(pixel, DictGet(config.params, "adjustment", 0))

\* the brightness sub-step of _apply_user_overrides on one pixel
BrightnessPixel2(pixel, opts) ==
    LET brightness_value == OptionInt(opts, "brightness").n IN
    IF brightness_value # 0 THEN cv2_convertScaleAbs(pixel, brightness_value) ELSE pixel

MaxAdjust == 40

Adjustments == (-MaxAdjust .. MaxAdjust) \cup {-1000, 1000}

InitPixel ==
    /\ \E p \in 0 .. 255, a \in Adjustments :
          pixelCall = [pc |-> "in", pixel |-> p, adjustment |-> a, out1 |-> p, out2 |-> p]
    /\ mergeCall = MergeIdle
    /\ scoreCall = ScoreIdle
    /\ st = StIdle
    /\ RestIdle

BrightenPass1 ==
    /\ pixelCall.pc = "in"
    /\ pixelCall' = [pixelCall EXCEPT
          !.pc = "pass1",
          !.out1 = BrightnessPixel1(pixelCall.pixel,
                                    Rec(TRUE, 2, Map1("adjustment", pixelCall.adjustment)))]
    /\ UNCHANGED <<mergeCall, scoreCall, st, handler, analyzers, invocations>>

BrightenPass2 ==
    /\ pixelCall.pc = "pass1"
    /\ pixelCall' = [pixelCall EXCEPT
          !.pc = "pass2",
          !.out2 = BrightnessPixel2(pixelCall.pixel,
                                    Map1("brightness", PyInt(pixelCall.adjustment)))]
    /\ UNCHANGED <<mergeCall, scoreCall, st, handler, analyzers, invocations>>

NextPixel == BrightenPass1 \/ BrightenPass2

SpecPixel == InitPixel /\ [][NextPixel]_vars

\* C8: whatever the pixel and the adjustment, the brightness operator of pass 1 and
\* of pass 2 yields a pixel in 0..255
BrightnessInRange ==
    /\ pixelCall.pc \in {"pass1", "pass2"} => pixelCall.out1 \in 0 .. 255
    /\ pixelCall.pc = "pass2" => pixelCall.out2 \in 0 .. 255

\* +1000 on a mid-gray pixel saturates at 255 in both passes
BrightnessInRangeWitness ==
    /\ pixelCall.pc = "pass2"
    /\ pixelCall.pixel = 128
    /\ pixelCall.adjustment = 1000
    /\ pixelCall.out1 = 255
    /\ pixelCall.out2 = 255

(***************************************************************************)
(* Images.  An image is the list of operator applications that produced it *)
(* from the decoded input, with its channel count (3: RGB, 1: grayscale).  *)
(* cv2.COLOR_GRAY2RGB and .copy() keep the content; RGB2GRAY does not.     *)
(***************************************************************************)
Image(ops, channels) == [ops |-> ops, channels |-> channels]

NoImage == Image(<<>>, 0)

Op(name, args) == [name |-> name, args |-> args]

Apply(img, name, args) == [img EXCEPT !.ops = Append(@, Op(name, args))]

\* cv2.cvtColor(img, cv2.COLOR_RGB2GRAY)
ToGray(img) == [ops |-> Append(img.ops, Op("grayscale", <<>>)), channels |-> 1]

\* cv2.cvtColor(img, cv2.COLOR_GRAY2RGB)
ToRGB(img) == [img EXCEPT !.channels = 3]

(***************************************************************************)
(* DynamicPreprocessor: the five operators of pass 1.  Each takes the      *)
(* working pair and returns the new pair; outcome is "ok" or "raise" (an   *)
(* exception anywhere inside the operator's try block).                    *)
(***************************************************************************)
\* mutant: the rotated colour image is kept when the rotation of the gray image raises
DeskewKeepsFirst(img, gray, config, angle, outcome) ==
    IF outcome \in {"ok", "raise_between"}
       /\ Abs(angle) > DictGet(config.params, "angle_threshold", 5)
    THEN <<Apply(img, "deskew", <<angle>>),
           IF outcome = "ok" THEN Apply(gray, "deskew", <<angle>>) ELSE gray>>
    ELSE <<img, gray>>

\* mutant: the angle is compared with the threshold without abs()
DeskewSignedThreshold(img, gray, config, angle, outcome) ==
    IF outcome = "ok" /\ angle > DictGet(config.params, "angle_threshold", 5)
    THEN <<Apply(img, "deskew", <<angle>>), Apply(gray, "deskew", <<angle>>)>>
    ELSE <<img, gray>>

\* mutant: angles beyond max_angle are not corrected
DeskewRespectsMaxAngle(img, gray, config, angle, outcome) ==
    IF outcome = "ok" /\ Abs(angle) > DictGet(config.params, "angle_threshold", 5)
       /\ Abs(angle) <= DictGet(config.params, "max_angle", 100)
    THEN <<Apply(img, "deskew", <<angle>>), Apply(gray, "deskew", <<angle>>)>>
    ELSE <<img, gray>>

\* angle: what _detect_skew measures on the current gray image
_apply_deskew(img, gray, config, angle, outcome) ==
    IF outcome = "ok" /\ Abs(angle) > DictGet(config.params, "angle_threshold", 5)
    THEN <<Apply(img, "deskew", <<angle>>), Apply(gray, "deskew", <<angle>>)>>
    ELSE <<img, gray>>

_apply_denoise(img, gray, config, outcome) ==
    LET strength == DictGet(config.params, "strength", 2) IN
    IF outcome = "ok"
    THEN <<Apply(img, "denoise", <<strength, 7, 21>>), Apply(gray, "denoise", <<strength, 7, 21>>)>>
    ELSE <<img, gray>>

\* the grayscale result is converted from the colour result (line 401)
_apply_contrast(img, gray, config, outcome) ==
    LET adjustment == DictGet(config.params, "adjustment", 0)
        result_img == Apply(img, "contrast", <<adjustment>>)
        result_gray == IF result_img.channels = 3 THEN ToGray(result_img) ELSE result_img
    IN IF outcome = "ok" THEN <<result_img, result_gray>> ELSE <<img, gray>>

_apply_brightness(img, gray, config, outcome) ==
    LET adjustment == DictGet(config.params, "adjustment", 0) IN
    IF outcome = "ok"
    THEN <<Apply(img, "brightness", <<adjustment>>), Apply(gray, "brightness", <<adjustment>>)>>
    ELSE <<img, gray>>

_apply_sharpen(img, gray, config, outcome) ==
    LET strength == DictGet(config.params, "strength", 1) IN
    IF outcome = "ok"
    THEN <<Apply(img, "sharpen", <<strength>>), Apply(gray, "sharpen", <<strength>>)>>
    ELSE <<img, gray>>

\* steps.append((priority, step_name, config)) for every enabled dict entry, in dict order
RECURSIVE EnabledSteps(_, _)
EnabledSteps(recommendations, i) ==
    IF i > Len(RecKeys) THEN <<>>
    ELSE LET config == recommendations[RecKeys[i]]
             rest == EnabledSteps(recommendations, i + 1)
         IN IF config.dict /\ config.enabled
            THEN <<[priority |-> config.priority, name |-> RecKeys[i], config |-> config]>> \o rest
            ELSE rest

\* mutant: x goes in front of the steps of its own priority (an unstable sort)
InsertStepBeforeTies(sorted, x) ==
    LET n == Cardinality({i \in 1 .. Len(sorted) : sorted[i].priority > x.priority})
    IN SubSeq(sorted, 1, n) \o <<x>> \o SubSeq(sorted, n + 1, Len(sorted))

\* x goes behind every step whose priority is not lower (list.sort is stable)
InsertStep(sorted, x) ==
    LET n == Cardinality({i \in 1 .. Len(sorted) : sorted[i].priority >= x.priority})
    IN SubSeq(sorted, 1, n) \o <<x>> \o SubSeq(sorted, n + 1, Len(sorted))

\* mutant: the steps are sorted by ascending priority
RECURSIVE SortStepsAscending(_)
SortStepsAscending(steps) ==
    IF steps = <<>> THEN <<>>
    ELSE LET sorted == SortStepsAscending(SubSeq(steps, 1, Len(steps) - 1))
             x == steps[Len(steps)]
             n == Cardinality({i \in 1 .. Len(sorted) : sorted[i].priority <= x.priority})
         IN SubSeq(sorted, 1, n) \o <<x>> \o SubSeq(sorted, n + 1, Len(sorted))

\* steps.sort(key=lambda x: x[0], reverse=True)
RECURSIVE SortSteps(_)
SortSteps(steps) ==
    IF steps = <<>> THEN <<>>
    ELSE InsertStep(SortSteps(SubSeq(steps, 1, Len(steps) - 1)), steps[Len(steps)])

(***************************************************************************)
(* One analysis on its own: every combination of levels.                   *)
(***************************************************************************)
\* the analysis, the step list of pass 1 and the auto options of one set of levels
InitScore ==
    /\ \E c \in ContrastLevels, b \in BrightnessLevels, n \in NoiseLevels,
          bl \in BlurLevels, a \in Angles, d \in DocumentTypes :
          scoreCall = [pc |-> "levels", levels |-> Levels(c, b, n, bl, a, d)]
    /\ mergeCall = MergeIdle
    /\ pixelCall = PixelIdle
    /\ st = StIdle
    /\ RestIdle

\* the tail of analyze_document_quality: quality score, then recommendations
Analyze ==
    /\ scoreCall.pc = "levels"
    /\ scoreCall' = [pc |-> "analyzed", levels |-> scoreCall.levels,
                     analysis |-> WithScoreAndRecommendations(scoreCall.levels)]
    /\ UNCHANGED <<mergeCall, pixelCall, st, handler, analyzers, invocations>>

\* the step list of _apply_adaptive_preprocessing, lines 329-333
PlanSteps ==
    /\ scoreCall.pc = "analyzed"
    /\ scoreCall' = [pc |-> "planned", levels |-> scoreCall.levels,
                     analysis |-> scoreCall.analysis,
                     steps |-> SortSteps(EnabledSteps(scoreCall.analysis.recommendations, 1))]
    /\ UNCHANGED <<mergeCall, pixelCall, st, handler, analyzers, invocations>>

DeriveAuto ==
    /\ scoreCall.pc = "planned"
    /\ scoreCall' = [pc |-> "derived", levels |-> scoreCall.levels,
                     analysis |-> scoreCall.analysis, steps |-> scoreCall.steps,
                     auto_opts |-> _derive_auto_preprocessing_options(scoreCall.analysis)]
    /\ UNCHANGED <<mergeCall, pixelCall, st, handler, analyzers, invocations>>

NextScore == Analyze \/ PlanSteps \/ DeriveAuto

SpecScore == InitScore /\ [][NextScore]_vars

\* mutant: the report lists every operator entry, enabled or not
ProcessingAppliedAll(recommendations) ==
    SelectSeq(RecKeys, LAMBDA k : recommendations[k].dict)

\* [k for k, v in recommendations.items() if isinstance(v, dict) and v.get('enabled', False)]
ProcessingApplied(recommendations) ==
    SelectSeq(RecKeys, LAMBDA k : recommendations[k].dict /\ recommendations[k].enabled)

(***************************************************************************)
(* _apply_user_overrides: the sub-steps of pass 2 on the working image.    *)
(***************************************************************************)
Clamp(lo, hi, x) == Max(lo, Min(hi, x))

\* int(x) of a value read from a nested dict: ok is FALSE when int() raises
PyIntOf(v) ==
    IF v.t \in {"int", "bool"} THEN [ok |-> TRUE, n |-> v.n] ELSE [ok |-> FALSE, n |-> 0]

\* mutant: the int form of denoise is used as given, without the clamp
DenoiseParamsUnclamped(denoise_opt) ==
    IF denoise_opt.t = "bool" THEN [ok |-> TRUE, strength |-> 3, template |-> 7, search |-> 21]
    ELSE IF denoise_opt.t = "int"
    THEN [ok |-> TRUE, strength |-> denoise_opt.n, template |-> 7, search |-> 21]
    ELSE [ok |-> TRUE, strength |-> 3, template |-> 7, search |-> 21]

\* strength, template, search from the denoise option; ok is FALSE when an int() raises
DenoiseParams(denoise_opt) ==
    IF denoise_opt.t = "bool" THEN [ok |-> TRUE, strength |-> 3, template |-> 7, search |-> 21]
    ELSE IF denoise_opt.t = "int"
    THEN [ok |-> TRUE, strength |-> Clamp(1, 15, denoise_opt.n), template |-> 7, search |-> 21]
    ELSE IF denoise_opt.t = "dict"
    THEN LET s == PyIntOf(DictGet(denoise_opt.d, "strength", PyInt(3)))
             t == PyIntOf(DictGet(denoise_opt.d, "template", PyInt(7)))
             w == PyIntOf(DictGet(denoise_opt.d, "search", PyInt(21)))
         IN [ok |-> s.ok /\ t.ok /\ w.ok, strength |-> Clamp(1, 15, s.n),
             template |-> t.n, search |-> w.n]
    ELSE [ok |-> TRUE, strength |-> 3, template |-> 7, search |-> 21]

\* lines 498-501: the working image is always 3-channel when the sub-steps start
OverridesWorkingImage(processed_img) ==
    IF processed_img.channels = 3 THEN processed_img ELSE ToRGB(processed_img)

UserGrayscale(working_img, opts) ==
    IF Truthy(DictGet(opts, "grayscale", PyBool(FALSE))) /\ working_img.channels = 3
    THEN ToGray(working_img)
    ELSE working_img

\* whether a sub-step runs its filter at all
DenoiseRequested(opts) == Truthy(DictGet(opts, "denoise", PyBool(FALSE)))

ContrastRequested(opts) == OptionInt(opts, "contrast").ok /\ OptionInt(opts, "contrast").n # 0

BrightnessRequested(opts) == OptionInt(opts, "brightness").ok /\ OptionInt(opts, "brightness").n # 0

SharpenRequested(opts) == OptionInt(opts, "sharpen").ok /\ OptionInt(opts, "sharpen").n > 0

UserDenoise(working_img, opts, outcome) ==
    LET params == DenoiseParams(DictGet(opts, "denoise", PyBool(FALSE))) IN
    IF DenoiseRequested(opts) /\ params.ok /\ outcome = "ok"
    THEN Apply(working_img, "denoise", <<params.strength, params.template, params.search>>)
    ELSE working_img

\* Image.fromarray on a 3-channel copy, so the result is 3-channel
UserContrast(working_img, opts, outcome) ==
    IF ContrastRequested(opts) /\ outcome = "ok"
    THEN ToRGB(Apply(working_img, "contrast", <<OptionInt(opts, "contrast").n>>))
    ELSE working_img

UserBrightness(working_img, opts, outcome) ==
    IF BrightnessRequested(opts) /\ outcome = "ok"
    THEN Apply(working_img, "brightness", <<OptionInt(opts, "brightness").n>>)
    ELSE working_img

\* working_img is assigned by cv2.filter2D (line 563) and again by np.clip (line 564):
\* "raise_late" is an exception raised by line 564.  filter2D on a uint8 image
\* already saturates, so the image line 563 leaves is the sharpened one.
UserSharpen(working_img, opts, outcome) ==
    IF SharpenRequested(opts) /\ outcome \in {"ok", "raise_late"}
    THEN Apply(working_img, "sharpen", <<OptionInt(opts, "sharpen").n>>)
    ELSE working_img

(***************************************************************************)
(* dynamic_preprocess_image: one invocation, step by step.                 *)
(***************************************************************************)
\* raw measurements the analyzer's thresholds are exercised on
LaplacianVars == {0, 300, 600, 900, 1100}

NoiseVariances == {10, 30, 60}

RmsContrasts == {0, 40, 70}

MichelsonPcts == {0, 50, 80}

MeanBrightnesses == {0, 70, 128, 200}

DarkPcts == {20, 100}

BrightPcts == {0, 50}

EdgePermilles == {20, 70, 150}

TextContours == {10, 60}

\* the level combinations analyze_document_quality can measure on one gray image:
\* noise and blur are classified from the same Laplacian variance
MeasuredLevels ==
    { Levels(_assess_contrast(rms, mich), _assess_brightness(mean, dark, bright),
             _assess_noise_level(lap, nv), _assess_blur(lap), a,
             _classify_document_type(edge, contours)) :
        rms \in RmsContrasts, mich \in MichelsonPcts, mean \in MeanBrightnesses,
        dark \in DarkPcts, bright \in BrightPcts, lap \in LaplacianVars,
        nv \in NoiseVariances, a \in Angles, edge \in EdgePermilles,
        contours \in TextContours }

\* the caller's preprocessing_options
UserOptionSets ==
    { PyNone,
      PyDict(EmptyMap),
      PyDict(Map1("lang", PyStr)),
      PyDict(Map1("denoise", PyInt(50))),
      PyDict(Map2("denoise", PyInt(50), "lang", PyStr)),
      PyDict(Map1("brightness", PyInt(0))) }

\* how many operator applications may raise in one invocation
MaxFailures == 1

NoAnalysis == [none |-> TRUE]

NoReport == [none |-> TRUE]

StStart(entry, pc, opts) ==
    [ pc |-> pc, entry |-> entry,
      preprocessing_options |-> opts, decoded |-> "none",
      img_array |-> NoImage, analysis |-> NoAnalysis,
      steps |-> <<>>, current_img |-> NoImage, current_gray |-> NoImage,
      processed_img |-> NoImage, pass1_img |-> NoImage,
      auto_opts |-> EmptyMap, final_opts |-> EmptyMap, working_img |-> NoImage,
      applied |-> <<>>, raised |-> {}, measured |-> <<>>,
      bytes |-> NoImage, report |-> NoReport ]

Init ==
    /\ \E opts \in UserOptionSets :
          st = StStart("dynamic_preprocess_image", "start", opts)
    /\ mergeCall = MergeIdle
    /\ scoreCall = ScoreIdle
    /\ pixelCall = PixelIdle
    /\ RestIdle

\* the outcomes an operator application may have
Outcomes == IF Cardinality(st.raised) < MaxFailures THEN {"ok", "raise"} ELSE {"ok"}

Raised(pass, name, outcome) ==
    IF outcome = "ok" THEN st.raised
    ELSE st.raised \cup {[pass |-> pass, name |-> name, at |-> outcome]}

Applied(pass, name, before, after) ==
    IF after = before THEN st.applied ELSE Append(st.applied, [pass |-> pass, name |-> name])

\* mutant: bytes that cannot be decoded are replaced by a blank image
OpenImageOrBlank(outcome, mode) ==
    [ raised |-> FALSE, img |-> Image(<<>>, IF mode = "L" THEN 1 ELSE 3) ]

\* Image.open, the mode conversions and np.array (lines 581-593): Image.open raises on
\* bytes it cannot identify, the conversion or np.array on data it cannot load
OpenImage(outcome, mode) ==
    IF outcome = "ok"
    THEN [ raised |-> FALSE, img |-> Image(<<>>, IF mode = "L" THEN 1 ELSE 3) ]
    ELSE [ raised |-> TRUE, img |-> NoImage ]

Decode ==
    /\ st.pc = "start"
    /\ \E outcome \in {"ok", "open_raises", "load_raises"}, mode \in {"RGB", "L", "RGBA", "P"} :
          LET r == OpenImage(outcome, mode) IN
          st' = IF r.raised THEN [st EXCEPT !.pc = "raised", !.decoded = outcome]
                ELSE [st EXCEPT !.pc = "analyze", !.decoded = outcome, !.img_array = r.img]
    /\ UNCHANGED <<mergeCall, scoreCall, pixelCall, handler, analyzers, invocations>>

\* process_document, line 308
AnalyzeQuality ==
    /\ st.pc = "analyze"
    /\ \E levels \in MeasuredLevels :
          st' = [st EXCEPT !.pc = "plan", !.analysis = WithScoreAndRecommendations(levels)]
    /\ UNCHANGED <<mergeCall, scoreCall, pixelCall, handler, analyzers, invocations>>

\* _apply_adaptive_preprocessing, lines 322-336
PlanPass1 ==
    /\ st.pc = "plan"
    /\ st' = [st EXCEPT
          !.pc = "pass1",
          !.steps = SortSteps(EnabledSteps(st.analysis.recommendations, 1)),
          !.current_img = ToRGB(st.img_array),
          !.current_gray = IF st.img_array.channels = 3 THEN ToGray(st.img_array)
                           ELSE st.img_array ]
    /\ UNCHANGED <<mergeCall, scoreCall, pixelCall, handler, analyzers, invocations>>

\* one iteration of the loop of lines 338-349 on the pair an operator returned
Pass1Stepped(name, pair, outcome) ==
    [st EXCEPT
          !.steps = Tail(st.steps),
          !.current_img = pair[1],
          !.current_gray = pair[2],
          !.applied = Applied(1, name, st.current_img, pair[1]),
          !.raised = Raised(1, name, outcome) ]

Pass1Step(name, pair, outcome) == st' = Pass1Stepped(name, pair, outcome)

\* the outcomes of a pass-1 operator: it builds the colour result, then the grayscale
\* one; "raise_between" is an exception raised after the first was built
Pass1Outcomes == IF Outcomes = {"ok"} THEN {"ok"} ELSE {"ok", "raise", "raise_between"}

\* _detect_skew is a pure function of the gray image: on the gray image the analysis
\* measured it returns the analysis' angle, on a modified one any angle
SkewAngles == IF st.applied = <<>> THEN {st.analysis.skew_angle.angle} ELSE Angles

ApplyDeskew ==
    /\ st.pc = "pass1" /\ st.steps # <<>> /\ Head(st.steps).name = "deskew"
    /\ \E outcome \in Pass1Outcomes, angle \in SkewAngles :
          st' = [Pass1Stepped("deskew",
                              _apply_deskew(st.current_img, st.current_gray,
                                            Head(st.steps).config, angle, outcome),
                              outcome)
                 EXCEPT !.measured = IF outcome = "raise" THEN @ ELSE Append(@, angle)]
    /\ UNCHANGED <<mergeCall, scoreCall, pixelCall, handler, analyzers, invocations>>

ApplyDenoise ==
    /\ st.pc = "pass1" /\ st.steps # <<>> /\ Head(st.steps).name = "denoise"
    /\ \E outcome \in Pass1Outcomes :
          Pass1Step("denoise",
                    _apply_denoise(st.current_img, st.current_gray, Head(st.steps).config, outcome),
                    outcome)
    /\ UNCHANGED <<mergeCall, scoreCall, pixelCall, handler, analyzers, invocations>>

ApplyContrast ==
    /\ st.pc = "pass1" /\ st.steps # <<>> /\ Head(st.steps).name = "contrast"
    /\ \E outcome \in Pass1Outcomes :
          Pass1Step("contrast",
                    _apply_contrast(st.current_img, st.current_gray, Head(st.steps).config, outcome),
                    outcome)
    /\ UNCHANGED <<mergeCall, scoreCall, pixelCall, handler, analyzers, invocations>>

ApplyBrightness ==
    /\ st.pc = "pass1" /\ st.steps # <<>> /\ Head(st.steps).name = "brightness"
    /\ \E outcome \in Pass1Outcomes :
          Pass1Step("brightness",
                    _apply_brightness(st.current_img, st.current_gray, Head(st.steps).config, outcome),
                    outcome)
    /\ UNCHANGED <<mergeCall, scoreCall, pixelCall, handler, analyzers, invocations>>

ApplySharpen ==
    /\ st.pc = "pass1" /\ st.steps # <<>> /\ Head(st.steps).name = "sharpen"
    /\ \E outcome \in Pass1Outcomes :
          Pass1Step("sharpen",
                    _apply_sharpen(st.current_img, st.current_gray, Head(st.steps).config, outcome),
                    outcome)
    /\ UNCHANGED <<mergeCall, scoreCall, pixelCall, handler, analyzers, invocations>>

\* return current_img (line 351) and processed_img, analysis = ... (line 596)
Pass1Return ==
    /\ st.pc = "pass1" /\ st.steps = <<>>
    /\ st' = [st EXCEPT !.pc = "derive", !.processed_img = st.current_img,
                        !.pass1_img = st.current_img]
    /\ UNCHANGED <<mergeCall, scoreCall, pixelCall, handler, analyzers, invocations>>

\* line 598
DeriveOptions ==
    /\ st.pc = "derive"
    /\ st' = [st EXCEPT !.pc = "merge",
                        !.auto_opts = _derive_auto_preprocessing_options(st.analysis)]
    /\ UNCHANGED <<mergeCall, scoreCall, pixelCall, handler, analyzers, invocations>>

\* mutant: pass 2 runs whatever the merged mapping holds
RunsOverridesAlways(final_opts) == TRUE

\* line 601, `if final_opts:`
RunsOverrides(final_opts) == DOMAIN final_opts # {}

\* lines 599-601: pass 2 runs when the merged mapping is not empty
MergeOptions ==
    /\ st.pc = "merge"
    /\ LET final_opts == _merge_preprocessing_options(st.auto_opts, st.preprocessing_options) IN
       st' = [st EXCEPT !.pc = IF RunsOverrides(final_opts) THEN "overrides" ELSE "encode",
                        !.final_opts = final_opts]
    /\ UNCHANGED <<mergeCall, scoreCall, pixelCall, handler, analyzers, invocations>>

\* _apply_user_overrides, lines 498-503
BeginOverrides ==
    /\ st.pc = "overrides"
    /\ st' = [st EXCEPT !.pc = "grayscale",
                        !.working_img = OverridesWorkingImage(st.processed_img)]
    /\ UNCHANGED <<mergeCall, scoreCall, pixelCall, handler, analyzers, invocations>>

\* lines 505-508
GrayscaleStep ==
    /\ st.pc = "grayscale"
    /\ LET after == UserGrayscale(st.working_img, st.final_opts) IN
       st' = [st EXCEPT !.pc = "denoise", !.working_img = after,
                        !.applied = Applied(2, "grayscale", st.working_img, after)]
    /\ UNCHANGED <<mergeCall, scoreCall, pixelCall, handler, analyzers, invocations>>

\* lines 510-530: int() on a dict item and the filter are both inside the try
DenoiseStep ==
    /\ st.pc = "denoise"
    /\ \E outcome \in (IF DenoiseRequested(st.final_opts) THEN Outcomes ELSE {"ok"}) :
          LET after == UserDenoise(st.working_img, st.final_opts, outcome)
              bad == DenoiseRequested(st.final_opts)
                     /\ ~DenoiseParams(st.final_opts["denoise"]).ok
          IN st' = [st EXCEPT !.pc = "contrast", !.working_img = after,
                        !.applied = Applied(2, "denoise", st.working_img, after),
                        !.raised = Raised(2, "denoise", IF bad THEN "raise" ELSE outcome)]
    /\ UNCHANGED <<mergeCall, scoreCall, pixelCall, handler, analyzers, invocations>>

\* lines 532-545: int(opts.get("contrast", 0) or 0) is outside the try
ContrastStep ==
    /\ st.pc = "contrast"
    /\ IF ~OptionInt(st.final_opts, "contrast").ok
       THEN st' = [st EXCEPT !.pc = "raised"]
       ELSE \E outcome \in (IF ContrastRequested(st.final_opts) THEN Outcomes ELSE {"ok"}) :
               LET after == UserContrast(st.working_img, st.final_opts, outcome) IN
               st' = [st EXCEPT !.pc = "brightness", !.working_img = after,
                        !.applied = Applied(2, "contrast", st.working_img, after),
                        !.raised = Raised(2, "contrast", outcome)]
    /\ UNCHANGED <<mergeCall, scoreCall, pixelCall, handler, analyzers, invocations>>

\* lines 547-553
BrightnessStep ==
    /\ st.pc = "brightness"
    /\ IF ~OptionInt(st.final_opts, "brightness").ok
       THEN st' = [st EXCEPT !.pc = "raised"]
       ELSE \E outcome \in (IF BrightnessRequested(st.final_opts) THEN Outcomes ELSE {"ok"}) :
               LET after == UserBrightness(st.working_img, st.final_opts, outcome) IN
               st' = [st EXCEPT !.pc = "sharpen", !.working_img = after,
                        !.applied = Applied(2, "brightness", st.working_img, after),
                        !.raised = Raised(2, "brightness", outcome)]
    /\ UNCHANGED <<mergeCall, scoreCall, pixelCall, handler, analyzers, invocations>>

\* the outcomes of the sharpen sub-step: line 564 may raise after line 563 assigned
SharpenOutcomes == IF Outcomes = {"ok"} THEN {"ok"} ELSE {"ok", "raise", "raise_late"}

\* lines 555-569, and processed_img = ... of line 602
SharpenStep ==
    /\ st.pc = "sharpen"
    /\ IF ~OptionInt(st.final_opts, "sharpen").ok
       THEN st' = [st EXCEPT !.pc = "raised"]
       ELSE \E outcome \in (IF SharpenRequested(st.final_opts) THEN SharpenOutcomes ELSE {"ok"}) :
               LET after == UserSharpen(st.working_img, st.final_opts, outcome) IN
               st' = [st EXCEPT
                        !.pc = IF st.entry = "dynamic_preprocess_image" THEN "encode" ELSE "returned",
                        !.working_img = after,
                        !.processed_img = after,
                        !.applied = IF outcome = "ok"
                                    THEN Applied(2, "sharpen", st.working_img, after)
                                    ELSE st.applied,
                        !.raised = Raised(2, "sharpen", outcome)]
    /\ UNCHANGED <<mergeCall, scoreCall, pixelCall, handler, analyzers, invocations>>

\* lines 616-631, without the sizes and the elapsed time
\* mutant: the report gives the merged options as the auto options
ReportAutoFromFinal(analysis, auto_opts, final_opts) ==
    [ quality_score |-> analysis.quality_score,
      document_type |-> analysis.document_type.type,
      brightness_level |-> analysis.brightness_level.level,
      contrast_level |-> analysis.contrast_quality.level,
      noise_level |-> analysis.noise_level.level,
      skew_angle |-> analysis.skew_angle.angle,
      blur_level |-> analysis.blur_level.level,
      processing_applied |-> ProcessingApplied(analysis.recommendations),
      auto_preprocessing_options |-> final_opts,
      final_preprocessing_options |-> final_opts ]

ReportOf(analysis, auto_opts, final_opts) ==
    [ quality_score |-> analysis.quality_score,
      document_type |-> analysis.document_type.type,
      brightness_level |-> analysis.brightness_level.level,
      contrast_level |-> analysis.contrast_quality.level,
      noise_level |-> analysis.noise_level.level,
      skew_angle |-> analysis.skew_angle.angle,
      blur_level |-> analysis.blur_level.level,
      processing_applied |-> ProcessingApplied(analysis.recommendations),
      auto_preprocessing_options |-> auto_opts,
      final_preprocessing_options |-> final_opts ]

\* the report of the invocation st
Report == ReportOf(st.analysis, st.auto_opts, st.final_opts)

\* lines 604-640: the JPEG of the 3-channel image, and the report
Encode ==
    /\ st.pc = "encode"
    /\ st' = [st EXCEPT !.pc = "done", !.bytes = ToRGB(st.processed_img), !.report = Report]
    /\ UNCHANGED <<mergeCall, scoreCall, pixelCall, handler, analyzers, invocations>>

Next ==
    \/ Decode \/ AnalyzeQuality \/ PlanPass1
    \/ ApplyDeskew \/ ApplyDenoise \/ ApplyContrast \/ ApplyBrightness \/ ApplySharpen
    \/ Pass1Return \/ DeriveOptions \/ MergeOptions
    \/ BeginOverrides \/ GrayscaleStep \/ DenoiseStep \/ ContrastStep \/ BrightnessStep
    \/ SharpenStep \/ Encode

Spec == Init /\ [][Next]_vars

(***************************************************************************)
(* _apply_user_overrides called on its own, on every form of the options.  *)
(***************************************************************************)
MaxStrength == 16

DenoiseOptions ==
    { PyBool(TRUE), PyBool(FALSE), PyInt(50) }
    \cup { PyInt(n) : n \in -1 .. MaxStrength }
    \cup { PyDict(EmptyMap),
           PyDict(Map1("strength", PyInt(9))),
           PyDict(Map1("strength", PyInt(0))),
           PyDict(Map2("strength", PyInt(50), "template", PyInt(5))),
           PyDict(Map2("template", PyInt(5), "search", PyInt(11))),
           PyDict(Map1("strength", PyStr)),
           PyStr }

OverrideOptionSets ==
    { DictUpdate(DictUpdate(DictUpdate(DictUpdate(g, d), c), b), s) :
        g \in {EmptyMap, Map1("grayscale", PyBool(TRUE))},
        d \in {EmptyMap} \cup { Map1("denoise", v) : v \in DenoiseOptions },
        c \in {EmptyMap, Map1("contrast", PyInt(30)), Map1("contrast", PyStr)},
        b \in {EmptyMap, Map1("brightness", PyInt(-20)), Map1("brightness", PyStr)},
        s \in {EmptyMap, Map1("sharpen", PyInt(2)),
               Map1("sharpen", PyDict(Map1("strength", PyInt(2))))} }

InitOverrides ==
    /\ \E opts \in OverrideOptionSets, channels \in {1, 3} :
          st = [StStart("_apply_user_overrides", "overrides", PyNone) EXCEPT
                  !.processed_img = Image(<<>>, channels), !.final_opts = opts]
    /\ mergeCall = MergeIdle
    /\ scoreCall = ScoreIdle
    /\ pixelCall = PixelIdle
    /\ RestIdle

NextOverrides ==
    \/ BeginOverrides \/ GrayscaleStep \/ DenoiseStep \/ ContrastStep \/ BrightnessStep
    \/ SharpenStep

SpecOverrides == InitOverrides /\ [][NextOverrides]_vars

(***************************************************************************)
(* Properties of one invocation.                                           *)
(***************************************************************************)
Range(seq) == { seq[i] : i \in 1 .. Len(seq) }

\* the operator names of an image's history, in order
OpNames(img) == [i \in 1 .. Len(img.ops) |-> img.ops[i].name]

Operators == {"deskew", "denoise", "contrast", "brightness", "sharpen"}

Pass2Order == <<"grayscale", "denoise", "contrast", "brightness", "sharpen">>

\* the operators pass 1 is to apply, in its order
Planned1 ==
    LET sorted == SortSteps(EnabledSteps(st.analysis.recommendations, 1))
    IN [i \in 1 .. Len(sorted) |-> sorted[i].name]

\* whether a sub-step of pass 2 is requested by the options
Requested(name, opts) ==
    CASE name = "grayscale"  -> Truthy(DictGet(opts, "grayscale", PyBool(FALSE)))
      [] name = "denoise"    -> DenoiseRequested(opts)
      [] name = "contrast"   -> ContrastRequested(opts)
      [] name = "brightness" -> BrightnessRequested(opts)
      [] name = "sharpen"    -> SharpenRequested(opts)

\* the sub-steps pass 2 is to apply under the final options, in its order
Planned2 == SelectSeq(Pass2Order, LAMBDA n : Requested(n, st.final_opts))

RaisedIn(pass, name) == \E f \in st.raised : f.pass = pass /\ f.name = name

\* C3: when exactly one operator raises inside its own application, the invocation
\* still returns, the failing operator leaves no trace on the image, and every other
\* enabled operator is applied in its usual position.
FailSoftIsolation ==
    (st.entry = "dynamic_preprocess_image" /\ st.pc \in {"done", "raised"}
       /\ st.decoded = "ok" /\ Cardinality(st.raised) = 1) =>
        /\ st.pc = "done"
        /\ OpNames(st.bytes) =
              SelectSeq(Planned1, LAMBDA n : ~RaisedIn(1, n))
              \o SelectSeq(Planned2, LAMBDA n : ~RaisedIn(2, n))

\* C4: processing_applied names only operators that succeeded in pass 1
AppliedOnlySucceeded ==
    (st.entry = "dynamic_preprocess_image" /\ st.pc = "done") =>
        \A i \in 1 .. Len(st.report.processing_applied) :
            [pass |-> 1, name |-> st.report.processing_applied[i]] \in Range(st.applied)

\* C5: bytes that cannot be decoded make the invocation raise before any analysis,
\* pass 1 or pass 2, and no (bytes, report) pair is ever built for them
DecodeFailureIsFatal ==
    (st.entry = "dynamic_preprocess_image" /\ st.decoded \in {"open_raises", "load_raises"}) =>
        /\ st.pc = "raised"
        /\ st.img_array = NoImage
        /\ st.analysis = NoAnalysis
        /\ st.applied = <<>>
        /\ st.bytes = NoImage
        /\ st.report = NoReport

DecodeFailureIsFatalWitness ==
    /\ st.entry = "dynamic_preprocess_image"
    /\ st.decoded = "load_raises"
    /\ st.pc = "raised"

\* the clamp of the claim, written out
Clamped1To15(n) == IF n < 1 THEN 1 ELSE IF n > 15 THEN 15 ELSE n

\* C7: the denoise sub-step of pass 2 runs with strength in [1,15]: True gives
\* (3, 7, 21); an int n gives (n clamped, 7, 21); a dict gives its strength clamped
\* (default 3) and its template and search (defaults 7 and 21)
DenoiseStrengthClamped ==
    (st.pc = "contrast" /\ [pass |-> 2, name |-> "denoise"] \in Range(st.applied)) =>
        LET opt == st.final_opts["denoise"]
            args == st.working_img.ops[Len(st.working_img.ops)].args
        IN /\ st.working_img.ops[Len(st.working_img.ops)].name = "denoise"
           /\ args[1] >= 1 /\ args[1] <= 15
           /\ opt.t = "bool" => args = <<3, 7, 21>>
           /\ opt.t = "int" => args = <<Clamped1To15(opt.n), 7, 21>>
           /\ opt.t = "dict" =>
                 /\ args[1] = Clamped1To15(DictGet(opt.d, "strength", PyInt(3)).n)
                 /\ args[2] = DictGet(opt.d, "template", PyInt(7)).n
                 /\ args[3] = DictGet(opt.d, "search", PyInt(21)).n

\* denoise=50 is used as strength 15
DenoiseStrengthClampedWitness ==
    /\ st.pc = "contrast"
    /\ "denoise" \in DOMAIN st.final_opts
    /\ st.final_opts["denoise"] = PyInt(50)
    /\ st.working_img.ops = <<Op("denoise", <<15, 7, 21>>)>>

\* C9: processing_applied is exactly the operator names whose recommendation is
\* enabled for the analysed image, and never holds threshold_method
AppliedIsEnabled ==
    (st.entry = "dynamic_preprocess_image" /\ st.pc = "done") =>
        LET pa == st.report.processing_applied
            recs == st.analysis.recommendations
        IN /\ \A k \in Operators : (k \in Range(pa)) <=> recs[k].enabled
           /\ Range(pa) \subseteq Operators
           /\ Cardinality(Range(pa)) = Len(pa)
           /\ \A i, j \in 1 .. Len(pa) :
                 i < j => \E a, b \in 1 .. Len(RecKeys) :
                             a < b /\ RecKeys[a] = pa[i] /\ RecKeys[b] = pa[j]

AppliedIsEnabledWitness ==
    /\ st.entry = "dynamic_preprocess_image"
    /\ st.pc = "done"
    /\ st.report.processing_applied = <<"deskew", "denoise", "contrast", "brightness">>
    /\ st.analysis.recommendations["threshold_method"] = Hint("adaptive")

\* the keys _apply_user_overrides reads
RecognizedKeys == {"grayscale", "denoise", "contrast", "brightness", "sharpen"}

\* a mapping without its unrecognized keys
Recognized(m) == [k \in DOMAIN m \cap RecognizedKeys |-> m[k]]

\* the outcome a sub-step of pass 2 had in this invocation
OutcomeOf(name) ==
    IF RaisedIn(2, name)
    THEN (CHOOSE f \in st.raised : f.pass = 2 /\ f.name = name).at
    ELSE "ok"

\* the image pass 2 returns for processed_img under opts, with this invocation's outcomes
OverridesResult(processed_img, opts) ==
    UserSharpen(
      UserBrightness(
        UserContrast(
          UserDenoise(
            UserGrayscale(OverridesWorkingImage(processed_img), opts),
            opts, OutcomeOf("denoise")),
          opts, OutcomeOf("contrast")),
        opts, OutcomeOf("brightness")),
      opts, OutcomeOf("sharpen"))

\* C10: an unrecognized key of the user options is carried unchanged into
\* final_preprocessing_options, and the image is the one the same invocation
\* produces from the options without such keys
UnrecognizedKeysInert ==
    (st.entry = "dynamic_preprocess_image" /\ st.pc = "done"
       /\ st.preprocessing_options.t = "dict") =>
        LET user == st.preprocessing_options.d
            final == st.report.final_preprocessing_options
            final0 == _merge_preprocessing_options(st.auto_opts, PyDict(Recognized(user)))
            img0 == IF DOMAIN final0 # {} THEN OverridesResult(st.pass1_img, final0)
                    ELSE st.pass1_img
        IN /\ \A k \in DOMAIN user \ RecognizedKeys :
                 k \in DOMAIN final /\ final[k] = user[k]
           /\ Recognized(final) = final0
           /\ st.processed_img = img0
           /\ st.bytes = ToRGB(img0)

\* denoise=50 with an extra key "lang": the key is in the final options, the
\* denoise sub-step runs with strength 15
UnrecognizedKeysInertWitness ==
    /\ st.entry = "dynamic_preprocess_image"
    /\ st.pc = "done"
    /\ st.preprocessing_options = PyDict(Map2("denoise", PyInt(50), "lang", PyStr))
    /\ st.report.final_preprocessing_options["lang"] = PyStr
    /\ \E i \in 1 .. Len(st.bytes.ops) : st.bytes.ops[i] = Op("denoise", <<15, 7, 21>>)

(***************************************************************************)
(* The OCR request handlers: run_ocr (ocr_adapter.py) and the premium      *)
(* endpoint (ocr_premium.py).  Both call dynamic_preprocess_image inside   *)
(* a try and then hand file_bytes and file_type to the OCR step.           *)
(***************************************************************************)
\* the options both handlers pass
HandlerOptions ==
    PyDict(Map1("denoise",
                PyDict(Map3("strength", PyInt(7), "template", PyInt(7), "search", PyInt(21)))))

\* MIME types a request arrives with; octet-stream is what run_ocr guesses for an
\* unknown file name
FileTypes == {"image/png", "image/jpeg", "application/pdf", "application/octet-stream"}

\* file_type.startswith("image/")
IsImageType(file_type) == file_type \in {"image/png", "image/jpeg"}

_is_supported(mime) == mime = "application/pdf" \/ IsImageType(mime)

\* the handler and the OCR provider of a request; run_ocr does not look at the provider
HandlerRequests ==
    { <<"run_ocr", "GEMINI">>, <<"ocr_premium", "GEMINI">>, <<"ocr_premium", "MISTRAL">> }

\* the conditions in front of the try
WantsPreprocessing(entry, provider, file_type) ==
    /\ entry = "ocr_premium" => provider # "MISTRAL"
    /\ file_type # "application/pdf"
    /\ IsImageType(file_type)

OriginalBytes == [processed |-> FALSE, image |-> NoImage]

\* mutant: the MIME type is forced before the call, outside the try
PreprocessedInputEarlyType(file_bytes, file_type, call) ==
    IF call.pc = "done"
    THEN [file_bytes |-> [processed |-> TRUE, image |-> call.bytes], file_type |-> "image/jpeg"]
    ELSE [file_bytes |-> file_bytes, file_type |-> "image/jpeg"]

\* the try / except around the call: call is the finished invocation
PreprocessedInput(file_bytes, file_type, call) ==
    IF call.pc = "done"
    THEN [file_bytes |-> [processed |-> TRUE, image |-> call.bytes], file_type |-> "image/jpeg"]
    ELSE [file_bytes |-> file_bytes, file_type |-> file_type]

NothingPassed == [file_bytes |-> OriginalBytes, file_type |-> "none"]

InitHandler ==
    /\ \E r \in HandlerRequests, t \in FileTypes :
          handler = [pc |-> "received", entry |-> r[1], provider |-> r[2], orig_type |-> t,
                     file_bytes |-> OriginalBytes, file_type |-> t, passed |-> NothingPassed]
    /\ st = StIdle
    /\ mergeCall = MergeIdle
    /\ scoreCall = ScoreIdle
    /\ pixelCall = PixelIdle
    /\ analyzers = AnalyzersIdle
    /\ invocations = InvocationsIdle

\* ocr_premium.py lines 416-419: HTTP 400 for a type that is neither image nor PDF
HandlerReject ==
    /\ handler.pc = "received"
    /\ handler.entry = "ocr_premium" /\ ~_is_supported(handler.file_type)
    /\ handler' = [handler EXCEPT !.pc = "rejected"]
    /\ UNCHANGED <<mergeCall, scoreCall, pixelCall, st, analyzers, invocations>>

\* the call of dynamic_preprocess_image inside the try
HandlerCall ==
    /\ handler.pc = "received"
    /\ handler.entry = "ocr_premium" => _is_supported(handler.file_type)
    /\ WantsPreprocessing(handler.entry, handler.provider, handler.file_type)
    /\ handler' = [handler EXCEPT !.pc = "preprocessing"]
    /\ st' = StStart("dynamic_preprocess_image", "start", HandlerOptions)
    /\ UNCHANGED <<mergeCall, scoreCall, pixelCall, analyzers, invocations>>

\* a PDF, a non-image, or the MISTRAL provider of the premium endpoint: no preprocessing
HandlerSkip ==
    /\ handler.pc = "received"
    /\ handler.entry = "ocr_premium" => _is_supported(handler.file_type)
    /\ ~WantsPreprocessing(handler.entry, handler.provider, handler.file_type)
    /\ handler' = [handler EXCEPT !.pc = "ocr_ready"]
    /\ UNCHANGED <<mergeCall, scoreCall, pixelCall, st, analyzers, invocations>>

\* the call returned (the two assignments) or raised (the except clause)
HandlerAfterCall ==
    /\ handler.pc = "preprocessing"
    /\ st.pc \in {"done", "raised"}
    /\ LET r == PreprocessedInput(handler.file_bytes, handler.file_type, st) IN
       handler' = [handler EXCEPT !.pc = "ocr_ready",
                                  !.file_bytes = r.file_bytes, !.file_type = r.file_type]
    /\ UNCHANGED <<mergeCall, scoreCall, pixelCall, st, analyzers, invocations>>

\* process_document_enhanced / process_image_url_or_base64 receive file_bytes and file_type
HandlerOcr ==
    /\ handler.pc = "ocr_ready"
    /\ handler' = [handler EXCEPT
          !.pc = "ocr",
          !.passed = [file_bytes |-> handler.file_bytes, file_type |-> handler.file_type]]
    /\ UNCHANGED <<mergeCall, scoreCall, pixelCall, st, analyzers, invocations>>

NextHandler ==
    \/ HandlerReject \/ HandlerCall \/ HandlerSkip \/ HandlerAfterCall \/ HandlerOcr
    \/ Next

SpecHandler == InitHandler /\ [][NextHandler]_vars

\* C11: the handler's bytes are the processed bytes exactly when its MIME type was
\* forced to image/jpeg, and only once dynamic_preprocess_image has returned; when
\* the call raised, the OCR step receives the original bytes and the original type
HandlerSubstitutesTogether ==
    handler.pc # "idle" =>
        /\ handler.file_bytes.processed =>
              /\ st.pc = "done"
              /\ handler.file_bytes.image = st.bytes
              /\ handler.file_type = "image/jpeg"
        /\ ~handler.file_bytes.processed =>
              /\ handler.file_bytes = OriginalBytes
              /\ handler.file_type = handler.orig_type
        /\ (handler.pc \in {"ocr_ready", "ocr"} /\ st.pc = "done") => handler.file_bytes.processed
        /\ handler.pc = "ocr" =>
              /\ handler.passed = [file_bytes |-> handler.file_bytes,
                                   file_type |-> handler.file_type]
              /\ st.pc = "raised" =>
                    handler.passed = [file_bytes |-> OriginalBytes,
                                      file_type |-> handler.orig_type]

\* a PNG whose bytes cannot be decoded reaches the OCR step as the original PNG
HandlerSubstitutesTogetherWitness ==
    /\ handler.pc = "ocr"
    /\ handler.entry = "ocr_premium"
    /\ st.pc = "raised"
    /\ handler.orig_type = "image/png"
    /\ handler.passed = [file_bytes |-> OriginalBytes, file_type |-> "image/png"]

(***************************************************************************)
(* DocumentAnalyzer instances.  __init__ creates analysis_cache = {};      *)
(* analyze_document_quality computes every measurement from the gray image *)
(* it is given and neither reads nor writes the instance.                  *)
(***************************************************************************)
MaxAnalyzers == 2

MaxCalls == 3

\* images handed to the analyzer
Pictures == {"black", "scan", "photo"}

\* what the measurement functions compute on the pixels of a picture
Measure(picture) ==
    CASE picture = "black" ->
            Levels(_assess_contrast(0, 0), _assess_brightness(0, 100, 0),
                   _assess_noise_level(0, 10), _assess_blur(0), 0,
                   _classify_document_type(20, 10))
      [] picture = "scan" ->
            Levels(_assess_contrast(70, 80), _assess_brightness(128, 20, 0),
                   _assess_noise_level(1100, 60), _assess_blur(1100), 20,
                   _classify_document_type(70, 60))
      [] picture = "photo" ->
            Levels(_assess_contrast(40, 50), _assess_brightness(200, 20, 50),
                   _assess_noise_level(600, 30), _assess_blur(600), -120,
                   _classify_document_type(150, 10))

\* DocumentAnalyzer.__init__
NewDocumentAnalyzer == [analysis_cache |-> EmptyMap]

\* mutant: the analysis is kept in analysis_cache and returned by the later calls
AnalyzeFromCache(self, picture) ==
    IF "last" \in DOMAIN self.analysis_cache
    THEN [self |-> self, analysis |-> self.analysis_cache["last"]]
    ELSE LET analysis == WithScoreAndRecommendations(Measure(picture))
         IN [self |-> [analysis_cache |-> Map1("last", analysis)], analysis |-> analysis]

\* the instance after the call, and the analysis returned
analyze_document_quality(self, picture) ==
    [self |-> self, analysis |-> WithScoreAndRecommendations(Measure(picture))]

InitAnalyzers ==
    /\ analyzers = [pc |-> "run", instances |-> <<>>, calls |-> 0, returned |-> {}]
    /\ mergeCall = MergeIdle
    /\ scoreCall = ScoreIdle
    /\ pixelCall = PixelIdle
    /\ st = StIdle
    /\ handler = HandlerIdle
    /\ invocations = InvocationsIdle

\* DocumentAnalyzer()
CreateAnalyzer ==
    /\ analyzers.pc = "run"
    /\ Len(analyzers.instances) < MaxAnalyzers
    /\ analyzers' = [analyzers EXCEPT !.instances = Append(@, NewDocumentAnalyzer)]
    /\ UNCHANGED <<mergeCall, scoreCall, pixelCall, st, handler, invocations>>

\* analyzer.analyze_document_quality(img_array) on one of the instances
CallAnalyze ==
    /\ analyzers.pc = "run"
    /\ analyzers.calls < MaxCalls
    /\ \E a \in 1 .. Len(analyzers.instances), p \in Pictures :
          LET r == analyze_document_quality(analyzers.instances[a], p) IN
          analyzers' = [analyzers EXCEPT
              !.instances[a] = r.self,
              !.calls = @ + 1,
              !.returned = @ \cup {[call |-> analyzers.calls + 1, analyzer |-> a,
                                    picture |-> p, analysis |-> r.analysis]}]
    /\ UNCHANGED <<mergeCall, scoreCall, pixelCall, st, handler, invocations>>

NextAnalyzers == CreateAnalyzer \/ CallAnalyze

SpecAnalyzers == InitAnalyzers /\ [][NextAnalyzers]_vars

Callers == {"a", "b"}

\* the image np.array(image) gives for the bytes of a picture
DecodedPicture(picture) == Image(<<Op("decoded", <<picture>>)>>, 3)

PictureOf(img) == img.ops[1].args[1]

ConcurrentInputs ==
    [ picture : Pictures,
      preprocessing_options : {PyNone, PyDict(Map1("denoise", PyInt(50))),
                               PyDict(Map1("brightness", PyInt(0)))} ]

\* mutant: one module-level buffer is reused by every allocation
ReuseObject(heap, value) ==
    IF heap = <<>> THEN [heap |-> <<value>>, ref |-> 1]
    ELSE [heap |-> [heap EXCEPT ![1] = value], ref |-> 1]

\* a new array or object: the heap after the allocation and the reference to it
NewObject(heap, value) == [heap |-> Append(heap, value), ref |-> Len(heap) + 1]

\* the loop of lines 338-349 with every operator succeeding
RECURSIVE Pass1Fold(_, _)
Pass1Fold(pair, steps) ==
    IF steps = <<>> THEN pair
    ELSE LET s == Head(steps)
             angle == Measure(PictureOf(pair[2])).skew_angle.angle
             next ==
               CASE s.name = "deskew" -> _apply_deskew(pair[1], pair[2], s.config, angle, "ok")
                 [] s.name = "denoise" -> _apply_denoise(pair[1], pair[2], s.config, "ok")
                 [] s.name = "contrast" -> _apply_contrast(pair[1], pair[2], s.config, "ok")
                 [] s.name = "brightness" -> _apply_brightness(pair[1], pair[2], s.config, "ok")
                 [] s.name = "sharpen" -> _apply_sharpen(pair[1], pair[2], s.config, "ok")
         IN Pass1Fold(next, Tail(steps))

\* process_document on an array: the analysis and the image pass 1 returns
process_document(img_array) ==
    LET analysis == analyze_document_quality(NewDocumentAnalyzer, PictureOf(img_array)).analysis
        steps == SortSteps(EnabledSteps(analysis.recommendations, 1))
    IN [ analysis |-> analysis,
         processed_img |-> Pass1Fold(<<ToRGB(img_array), ToGray(img_array)>>, steps)[1] ]

\* _apply_user_overrides with every sub-step succeeding
_apply_user_overrides(processed_img, opts) ==
    UserSharpen(
      UserBrightness(
        UserContrast(
          UserDenoise(UserGrayscale(OverridesWorkingImage(processed_img), opts), opts, "ok"),
          opts, "ok"),
        opts, "ok"),
      opts, "ok")

\* dynamic_preprocess_image run alone on one input
dynamic_preprocess_image(input) ==
    LET p == process_document(DecodedPicture(input.picture))
        auto_opts == _derive_auto_preprocessing_options(p.analysis)
        final_opts == _merge_preprocessing_options(auto_opts, input.preprocessing_options)
        processed_img == IF DOMAIN final_opts # {}
                         THEN _apply_user_overrides(p.processed_img, final_opts)
                         ELSE p.processed_img
    IN [ bytes |-> ToRGB(processed_img),
         report |-> ReportOf(p.analysis, auto_opts, final_opts) ]

NoRef == 0

InitConcurrent ==
    /\ \E inputs \in [Callers -> ConcurrentInputs] :
          invocations =
            [ heap |-> <<>>,
              call |-> [c \in Callers |->
                          [ pc |-> "start", input |-> inputs[c], img_array |-> NoRef,
                            processed_img |-> NoRef, pass1_img |-> NoRef,
                            analysis |-> NoAnalysis,
                            auto_opts |-> EmptyMap, final_opts |-> EmptyMap,
                            bytes |-> NoImage, report |-> NoReport ]] ]
    /\ mergeCall = MergeIdle
    /\ scoreCall = ScoreIdle
    /\ pixelCall = PixelIdle
    /\ st = StIdle
    /\ handler = HandlerIdle
    /\ analyzers = AnalyzersIdle

\* lines 581-593: img_array = np.array(image)
ConcurrentDecode(c) ==
    /\ invocations.call[c].pc = "start"
    /\ LET r == NewObject(invocations.heap, DecodedPicture(invocations.call[c].input.picture)) IN
       invocations' = [invocations EXCEPT
           !.heap = r.heap,
           !.call[c].pc = "process",
           !.call[c].img_array = r.ref]
    /\ UNCHANGED <<mergeCall, scoreCall, pixelCall, st, handler, analyzers>>

\* lines 595-596: a new DynamicPreprocessor, the analysis and pass 1 on img_array
ConcurrentProcess(c) ==
    /\ invocations.call[c].pc = "process"
    /\ LET p == process_document(invocations.heap[invocations.call[c].img_array])
           r == NewObject(invocations.heap, p.processed_img)
       IN invocations' = [invocations EXCEPT
              !.heap = r.heap,
              !.call[c].pc = "overrides",
              !.call[c].analysis = p.analysis,
              !.call[c].processed_img = r.ref,
              !.call[c].pass1_img = r.ref]
    /\ UNCHANGED <<mergeCall, scoreCall, pixelCall, st, handler, analyzers>>

\* lines 598-602: the options and pass 2 on processed_img
ConcurrentOverrides(c) ==
    /\ invocations.call[c].pc = "overrides"
    /\ LET me == invocations.call[c]
           auto_opts == _derive_auto_preprocessing_options(me.analysis)
           final_opts == _merge_preprocessing_options(auto_opts, me.input.preprocessing_options)
           r == IF DOMAIN final_opts # {}
                THEN NewObject(invocations.heap,
                               _apply_user_overrides(invocations.heap[me.processed_img], final_opts))
                ELSE [heap |-> invocations.heap, ref |-> me.processed_img]
       IN invocations' = [invocations EXCEPT
              !.heap = r.heap,
              !.call[c].pc = "encode",
              !.call[c].auto_opts = auto_opts,
              !.call[c].final_opts = final_opts,
              !.call[c].processed_img = r.ref]
    /\ UNCHANGED <<mergeCall, scoreCall, pixelCall, st, handler, analyzers>>

\* lines 604-640: the JPEG bytes and the report
ConcurrentEncode(c) ==
    /\ invocations.call[c].pc = "encode"
    /\ LET me == invocations.call[c] IN
       invocations' = [invocations EXCEPT
           !.call[c].pc = "done",
           !.call[c].bytes = ToRGB(invocations.heap[me.processed_img]),
           !.call[c].report = ReportOf(me.analysis, me.auto_opts, me.final_opts)]
    /\ UNCHANGED <<mergeCall, scoreCall, pixelCall, st, handler, analyzers>>

NextConcurrent ==
    \E c \in Callers :
        \/ ConcurrentDecode(c) \/ ConcurrentProcess(c)
        \/ ConcurrentOverrides(c) \/ ConcurrentEncode(c)

SpecConcurrent == InitConcurrent /\ [][NextConcurrent]_vars

\* C13: under every interleaving, an invocation that has returned holds the bytes and
\* the report it produces when run alone on its input, and the two invocations never
\* hold a reference to the same array
ConcurrentSameAsAlone ==
    invocations # InvocationsIdle =>
        /\ \A c \in Callers :
              invocations.call[c].pc = "done" =>
                 LET alone == dynamic_preprocess_image(invocations.call[c].input) IN
                 /\ invocations.call[c].bytes = alone.bytes
                 /\ invocations.call[c].report = alone.report
        /\ \A c, d \in Callers :
              (c # d /\ invocations.call[c].img_array # NoRef) =>
                 /\ invocations.call[c].img_array # invocations.call[d].img_array
                 /\ invocations.call[c].img_array # invocations.call[d].processed_img

\* both invocations returned, on different pictures, after decoding one right after
\* the other
ConcurrentSameAsAloneWitness ==
    /\ invocations # InvocationsIdle
    /\ \A c \in Callers : invocations.call[c].pc = "done"
    /\ invocations.call["a"].input.picture = "scan"
    /\ invocations.call["b"].input.picture = "photo"
    /\ invocations.call["b"].input.preprocessing_options # PyNone
    /\ invocations.call["a"].img_array = 1
    /\ invocations.call["b"].img_array = 2
    /\ invocations.call["a"].bytes # invocations.call["b"].bytes

(***************************************************************************)
(* The order of pass 1.                                                    *)
(***************************************************************************)
\* the enabled operators of one priority, in key order
EnabledAt(recs, priority) ==
    SelectSeq(<<"deskew", "denoise", "contrast", "brightness", "sharpen">>,
              LAMBDA k : recs[k].enabled /\ recs[k].priority = priority)

\* the order the claim describes: priority 3, then 2, then 1, key order inside each
PriorityOrder(recs) ==
    EnabledAt(recs, 3) \o EnabledAt(recs, 2) \o EnabledAt(recs, 1) \o EnabledAt(recs, 0)

StepNames(steps) == [i \in 1 .. Len(steps) |-> steps[i].name]

IsSuffix(s, t) == Len(s) <= Len(t) /\ s = SubSeq(t, Len(t) - Len(s) + 1, Len(t))

\* C14: the operators pass 1 still has to dispatch are always a tail of the enabled
\* recommendations ordered by non-increasing priority with ties in key order; when
\* pass 1 returns, its image carries exactly these operators, once each and in that
\* order (without the one that raised, if any)
Pass1PriorityOrder ==
    st.entry = "dynamic_preprocess_image" =>
        /\ st.pc = "pass1" =>
              IsSuffix(StepNames(st.steps), PriorityOrder(st.analysis.recommendations))
        /\ st.pc = "derive" =>
              OpNames(st.pass1_img) =
                 SelectSeq(PriorityOrder(st.analysis.recommendations),
                           LAMBDA n : ~RaisedIn(1, n))

\* high skew (3), low contrast and dark (2 each), medium noise (1): denoise comes
\* last although its key comes second
Pass1PriorityOrderWitness ==
    /\ st.entry = "dynamic_preprocess_image"
    /\ st.pc = "derive"
    /\ st.raised = {}
    /\ OpNames(st.pass1_img) = <<"deskew", "contrast", "brightness", "denoise">>

(***************************************************************************)
(* The tables of the analysis, written out as the specification gives them *)
(***************************************************************************)
\* C15: for every combination of levels the recommendations are: deskew iff skew is
\* medium or high (priority 3 / 2, angle_threshold 0.5, max_angle 10); denoise iff
\* noise is medium or high (strength 3, priority 2 / strength 2, priority 1); contrast
\* iff contrast is low (30, priority 2); brightness iff dark, very_dark or overexposed
\* (20, 40, -20; priority 2, 2, 1); sharpen iff blurry (strength 2, priority 1);
\* threshold_method adaptive iff text_heavy, else otsu
RecommendationTable ==
    scoreCall.pc \in {"analyzed", "derived"} =>
        LET l == scoreCall.levels
            r == scoreCall.analysis.recommendations
            skew == l.skew_angle.level
            noise == l.noise_level.level
            bright == l.brightness_level.level
        IN /\ r.deskew.enabled <=> skew \in {"medium", "high"}
           /\ skew = "high" => r.deskew.priority = 3
           /\ skew = "medium" => r.deskew.priority = 2
           /\ r.deskew.enabled =>
                 r.deskew.params = [angle_threshold |-> 5, max_angle |-> 100]
           /\ r.denoise.enabled <=> noise \in {"medium", "high"}
           /\ noise = "high" => (r.denoise.params["strength"] = 3 /\ r.denoise.priority = 2)
           /\ noise = "medium" => (r.denoise.params["strength"] = 2 /\ r.denoise.priority = 1)
           /\ r.contrast.enabled <=> l.contrast_quality.level = "low"
           /\ r.contrast.enabled =>
                 (r.contrast.params["adjustment"] = 30 /\ r.contrast.priority = 2)
           /\ r.brightness.enabled <=> bright \in {"dark", "very_dark", "overexposed"}
           /\ bright = "dark" =>
                 (r.brightness.params["adjustment"] = 20 /\ r.brightness.priority = 2)
           /\ bright = "very_dark" =>
                 (r.brightness.params["adjustment"] = 40 /\ r.brightness.priority = 2)
           /\ bright = "overexposed" =>
                 (r.brightness.params["adjustment"] = -20 /\ r.brightness.priority = 1)
           /\ r.sharpen.enabled <=> l.blur_level.level = "blurry"
           /\ r.sharpen.enabled =>
                 (r.sharpen.params["strength"] = 2 /\ r.sharpen.priority = 1)
           /\ ~r.threshold_method.dict
           /\ r.threshold_method.value =
                 (IF l.document_type.type = "text_heavy" THEN "adaptive" ELSE "otsu")

\* high skew, medium noise, low contrast, overexposed, blurry, text_heavy
RecommendationTableWitness ==
    /\ scoreCall.pc = "analyzed"
    /\ scoreCall.levels = Levels("low", "overexposed", "medium", "blurry", -120, "text_heavy")
    /\ scoreCall.analysis.recommendations =
          [ deskew |-> Rec(TRUE, 3, [angle_threshold |-> 5, max_angle |-> 100]),
            denoise |-> Rec(TRUE, 1, [strength |-> 2]),
            contrast |-> Rec(TRUE, 2, [adjustment |-> 30]),
            brightness |-> Rec(TRUE, 1, [adjustment |-> -20]),
            sharpen |-> Rec(TRUE, 1, [strength |-> 2]),
            threshold_method |-> Hint("adaptive") ]

ContrastBonus(level) ==
    CASE level = "high" -> 25 [] level = "medium" -> 15 [] level = "low" -> 0

BrightnessBonus(level) ==
    CASE level = "normal" -> 20 [] level = "bright" -> 15 [] level = "dark" -> 10
      [] level = "very_dark" -> 0 [] level = "overexposed" -> 5

NoisePenalty(level) ==
    CASE level = "low" -> 0 [] level = "medium" -> -5 [] level = "high" -> -15

BlurBonus(level) ==
    CASE level = "sharp" -> 5 [] level = "moderate" -> 0 [] level = "blurry" -> -10

SkewPenalty(level) ==
    CASE level = "low" -> 0 [] level = "medium" -> -2 [] level = "high" -> -5

\* C16: for every combination of levels quality_score is 50 plus the five table
\* entries, clamped to [0, 100]
QualityScoreTable ==
    scoreCall.pc \in {"analyzed", "derived"} =>
        LET l == scoreCall.levels
            sum == 50 + ContrastBonus(l.contrast_quality.level)
                      + BrightnessBonus(l.brightness_level.level)
                      + NoisePenalty(l.noise_level.level)
                      + BlurBonus(l.blur_level.level)
                      + SkewPenalty(l.skew_angle.level)
        IN scoreCall.analysis.quality_score =
              (IF sum < 0 THEN 0 ELSE IF sum > 100 THEN 100 ELSE sum)

\* low contrast, normal brightness, low noise, blurry, low skew: 60
QualityScoreTableWitness ==
    /\ scoreCall.pc = "analyzed"
    /\ scoreCall.levels.contrast_quality.level = "low"
    /\ scoreCall.levels.brightness_level.level = "normal"
    /\ scoreCall.levels.noise_level.level = "low"
    /\ scoreCall.levels.blur_level.level = "blurry"
    /\ scoreCall.levels.skew_angle.level = "low"
    /\ scoreCall.analysis.quality_score = 60

\* C17: the auto options are exactly: denoise {strength 7 / 4} for high / medium noise,
\* {strength 3} for low noise with quality_score < 45; contrast 30 for low contrast,
\* 15 for medium with quality_score < 60; brightness 40 / 20 / -20 for very_dark /
\* dark / overexposed; sharpen 1 iff blurry and quality_score < 65; grayscale True iff
\* simple_text or text_heavy and not overexposed; and no other key
AutoOptionsTable ==
    scoreCall.pc = "derived" =>
        LET l == scoreCall.levels
            q == scoreCall.analysis.quality_score
            o == scoreCall.auto_opts
            noise == l.noise_level.level
            contrast == l.contrast_quality.level
            bright == l.brightness_level.level
            Has(k, v) == k \in DOMAIN o /\ o[k] = v
        IN /\ DOMAIN o \subseteq {"denoise", "contrast", "brightness", "sharpen", "grayscale"}
           /\ noise = "high" => Has("denoise", PyDict([strength |-> PyInt(7)]))
           /\ noise = "medium" => Has("denoise", PyDict([strength |-> PyInt(4)]))
           /\ (noise = "low" /\ q < 45) => Has("denoise", PyDict([strength |-> PyInt(3)]))
           /\ (noise = "low" /\ q >= 45) => "denoise" \notin DOMAIN o
           /\ contrast = "low" => Has("contrast", PyInt(30))
           /\ (contrast = "medium" /\ q < 60) => Has("contrast", PyInt(15))
           /\ (contrast = "high" \/ (contrast = "medium" /\ q >= 60)) =>
                 "contrast" \notin DOMAIN o
           /\ bright = "very_dark" => Has("brightness", PyInt(40))
           /\ bright = "dark" => Has("brightness", PyInt(20))
           /\ bright = "overexposed" => Has("brightness", PyInt(-20))
           /\ bright \in {"normal", "bright"} => "brightness" \notin DOMAIN o
           /\ ("sharpen" \in DOMAIN o) <=> (l.blur_level.level = "blurry" /\ q < 65)
           /\ "sharpen" \in DOMAIN o => o["sharpen"] = PyInt(1)
           /\ ("grayscale" \in DOMAIN o) <=>
                 (l.document_type.type \in {"simple_text", "text_heavy"}
                    /\ bright # "overexposed")
           /\ "grayscale" \in DOMAIN o => o["grayscale"] = PyBool(TRUE)

\* the all-black image: very_dark, so brightness 40 (and, with quality_score 40,
\* denoise 3, contrast 30, sharpen 1, grayscale)
AutoOptionsTableWitness ==
    /\ scoreCall.pc = "derived"
    /\ scoreCall.levels = Measure("black")
    /\ scoreCall.levels.brightness_level.level = "very_dark"
    /\ scoreCall.auto_opts =
          [ denoise |-> PyDict([strength |-> PyInt(3)]), contrast |-> PyInt(30),
            brightness |-> PyInt(40), sharpen |-> PyInt(1), grayscale |-> PyBool(TRUE) ]

(***************************************************************************)
(* Pass 2 on its own.                                                      *)
(***************************************************************************)
\* C18: whatever the option mapping, _apply_user_overrides does not raise
OverridesNeverRaise ==
    st.entry = "_apply_user_overrides" => st.pc # "raised"

\* the saturating sum of the claim
SaturatingSum(p, a) == IF p + a < 0 THEN 0 ELSE IF p + a > 255 THEN 255 ELSE p + a

\* C19: the brightness operator of pass 1 and of pass 2 outputs min(255, max(0, p + a))
BrightnessSaturatingSum ==
    /\ pixelCall.pc \in {"pass1", "pass2"} =>
          pixelCall.out1 = SaturatingSum(pixelCall.pixel, pixelCall.adjustment)
    /\ pixelCall.pc = "pass2" =>
          pixelCall.out2 = SaturatingSum(pixelCall.pixel, pixelCall.adjustment)

IsPrefix(s, t) == Len(s) <= Len(t) /\ s = SubSeq(t, 1, Len(s))

\* C21: pass 2 has started only after pass 1 returned and works on pass 1's output;
\* a finished invocation ran pass 2 iff the merged options are not empty, and with
\* empty merged options the encoded image is pass 1's output
Pass2IffMergedOptions ==
    (st.entry = "dynamic_preprocess_image" /\ st.pc # "raised") =>
        /\ st.working_img # NoImage =>
              /\ st.pass1_img # NoImage
              /\ DOMAIN st.final_opts # {}
              /\ IsPrefix(st.pass1_img.ops, st.working_img.ops)
        /\ st.pc \in {"encode", "done"} =>
              ((st.working_img # NoImage) <=> (DOMAIN st.final_opts # {}))
        /\ (st.pc = "done" /\ DOMAIN st.final_opts = {}) =>
              st.bytes = ToRGB(st.pass1_img)

\* a skewed but otherwise good image with options {}: no auto option, pass 1
\* deskews, pass 2 does not run
Pass2IffMergedOptionsWitness ==
    /\ st.entry = "dynamic_preprocess_image"
    /\ st.pc = "done"
    /\ st.preprocessing_options = PyDict(EmptyMap)
    /\ st.auto_opts = EmptyMap
    /\ st.working_img = NoImage
    /\ OpNames(st.pass1_img) = <<"deskew">>
    /\ st.bytes = st.pass1_img

(***************************************************************************)
(* _apply_adaptive_preprocessing called on its own: any recommendations,   *)
(* a colour or a grayscale input.                                          *)
(***************************************************************************)
Pass1Recommendations ==
    [ deskew : { Rec(FALSE, 0, EmptyMap),
                 Rec(TRUE, 3, Map2("angle_threshold", 5, "max_angle", 100)),
                 Rec(TRUE, 1, EmptyMap) },
      denoise : { Rec(FALSE, 0, Map1("strength", 0)),
                  Rec(TRUE, 2, Map1("strength", 3)),
                  Rec(TRUE, 3, Map1("strength", 2)) },
      contrast : { Rec(FALSE, 0, Map1("adjustment", 0)), Rec(TRUE, 2, Map1("adjustment", 30)) },
      brightness : { Rec(FALSE, 0, Map1("adjustment", 0)),
                     Rec(TRUE, 2, Map1("adjustment", -20)) },
      sharpen : { Rec(FALSE, 0, Map1("strength", 0)), Rec(TRUE, 1, Map1("strength", 2)) },
      threshold_method : { Hint("otsu") } ]

\* skew_angle.angle is what _detect_skew measures on the input
InitPass1 ==
    /\ \E r \in Pass1Recommendations, a \in Angles, channels \in {1, 3} :
          st = [StStart("_apply_adaptive_preprocessing", "plan", PyNone) EXCEPT
                  !.img_array = Image(<<>>, channels),
                  !.analysis = [recommendations |-> r, skew_angle |-> [angle |-> a]]]
    /\ mergeCall = MergeIdle
    /\ scoreCall = ScoreIdle
    /\ pixelCall = PixelIdle
    /\ RestIdle

NextPass1 ==
    \/ PlanPass1
    \/ ApplyDeskew \/ ApplyDenoise \/ ApplyContrast \/ ApplyBrightness \/ ApplySharpen
    \/ Pass1Return

SpecPass1 == InitPass1 /\ [][NextPass1]_vars

\* the operators applied to an image, without the colour conversions
Filters(img) == SelectSeq(img.ops, LAMBDA o : o.name # "grayscale")

\* the rotations an image went through: they decide its width and height
Rotations(img) == SelectSeq(img.ops, LAMBDA o : o.name = "deskew")

\* C22: during and after pass 1 the colour and the grayscale working image carry the
\* same operator applications, so each step updated both or neither, and they went
\* through the same rotations, so they have the same width and height
Pass1Lockstep ==
    st.pc \in {"pass1", "derive"} =>
        /\ Filters(st.current_gray) = Filters(st.current_img)
        /\ Rotations(st.current_gray) = Rotations(st.current_img)

\* a rotation that failed between the two images, followed by another operator
Pass1LockstepWitness ==
    /\ st.pc = "derive"
    /\ \E f \in st.raised : f.pass = 1 /\ f.name = "deskew" /\ f.at = "raise_between"
    /\ st.measured = <<-120>>
    /\ OpNames(st.current_img) = <<"brightness", "sharpen">>

\* C23: deskew rotates both working images by the angle it measured on the current
\* gray image iff the magnitude of that angle exceeds angle_threshold; otherwise, and
\* when it raised, neither image is rotated
DeskewRemeasures ==
    (st.entry = "_apply_adaptive_preprocessing" /\ st.pc \in {"pass1", "derive"}) =>
        LET threshold == DictGet(st.analysis.recommendations.deskew.params, "angle_threshold", 5)
            failed == \E f \in st.raised : f.name = "deskew"
        IN IF st.measured # <<>> /\ ~failed /\ Abs(st.measured[1]) > threshold
           THEN /\ Rotations(st.current_img) = <<Op("deskew", <<st.measured[1]>>)>>
                /\ Rotations(st.current_gray) = <<Op("deskew", <<st.measured[1]>>)>>
           ELSE /\ Rotations(st.current_img) = <<>>
                /\ Rotations(st.current_gray) = <<>>

\* deskew after a denoise: the input measured 0.6 degrees, the denoised gray image
\* measures 2.0 degrees, and both images are rotated by 2.0 degrees
DeskewRemeasuresWitness ==
    /\ st.entry = "_apply_adaptive_preprocessing"
    /\ st.pc = "derive"
    /\ st.analysis.skew_angle.angle = 6
    /\ st.measured = <<20>>
    /\ OpNames(st.current_img) = <<"denoise", "deskew">>
    /\ Rotations(st.current_gray) = <<Op("deskew", <<20>>)>>

\* C28: an angle whose magnitude exceeds the max_angle of the recommendation is
\* corrected like any other angle above the threshold
MaxAngleDoesNotLimit ==
    (st.entry = "_apply_adaptive_preprocessing" /\ st.pc \in {"pass1", "derive"}
       /\ st.measured # <<>> /\ st.raised = {}
       /\ "max_angle" \in DOMAIN st.analysis.recommendations.deskew.params) =>
        LET a == st.measured[1]
            params == st.analysis.recommendations.deskew.params
        IN (Abs(a) > params["max_angle"] /\ Abs(a) > params["angle_threshold"]) =>
              Rotations(st.current_img) = <<Op("deskew", <<a>>)>>

\* 12 degrees with max_angle 10
MaxAngleDoesNotLimitWitness ==
    /\ st.entry = "_apply_adaptive_preprocessing"
    /\ st.pc = "derive"
    /\ st.raised = {}
    /\ st.analysis.recommendations.deskew.params = [angle_threshold |-> 5, max_angle |-> 100]
    /\ st.measured = <<-120>>
    /\ Rotations(st.current_img) = <<Op("deskew", <<-120>>)>>

(***************************************************************************)
(* _detect_skew: the candidate angles of the two estimators are pooled and *)
(* their median is the skew angle.  Angles are in tenths of a degree and   *)
(* the confidence in tenths.  The candidates of an estimator are given as  *)
(* the number of candidates of each angle; an estimator that raises adds   *)
(* none (`except Exception: pass`).                                        *)
(***************************************************************************)
CandidateAngles == {-120, 0, 20}

MaxLines == 3

MaxContours == 1

RECURSIVE Repeat(_, _)
Repeat(x, k) == IF k = 0 THEN <<>> ELSE <<x>> \o Repeat(x, k - 1)

RECURSIVE SortedCandidates(_, _)
SortedCandidates(S, count) ==
    IF S = {} THEN <<>>
    ELSE LET least == CHOOSE x \in S : \A y \in S : x <= y
         IN Repeat(least, count[least]) \o SortedCandidates(S \ {least}, count)

\* np.median of a non-empty sorted list
np_median(sorted) ==
    LET n == Len(sorted) IN
    IF n % 2 = 1 THEN sorted[(n + 1) \div 2]
    ELSE (sorted[n \div 2] + sorted[n \div 2 + 1]) \div 2

\* the pooled list `angles`, sorted
PooledAngles(lines, contours, hough_ok, contours_ok) ==
    SortedCandidates(CandidateAngles,
        [a \in CandidateAngles |-> (IF hough_ok THEN lines[a] ELSE 0)
                                   + (IF contours_ok THEN contours[a] ELSE 0)])

_detect_skew(lines, contours, hough_ok, contours_ok) ==
    LET angles == PooledAngles(lines, contours, hough_ok, contours_ok)
        skew_angle == IF angles # <<>> THEN np_median(angles) ELSE 0
    IN [ angle |-> skew_angle,
         level |-> SkewLevel(skew_angle),
         confidence |-> IF angles # <<>> THEN Len(angles) ELSE 0 ]

InitSkew ==
    /\ \E lines \in [CandidateAngles -> 0..MaxLines],
          contours \in [CandidateAngles -> 0..MaxContours],
          hough_ok \in BOOLEAN, contours_ok \in BOOLEAN :
          scoreCall = [pc |-> "skew", lines |-> lines, contours |-> contours,
                       hough_ok |-> hough_ok, contours_ok |-> contours_ok]
    /\ mergeCall = MergeIdle
    /\ pixelCall = PixelIdle
    /\ st = StIdle
    /\ RestIdle

DetectSkew ==
    /\ scoreCall.pc = "skew"
    /\ scoreCall' = [scoreCall EXCEPT !.pc = "detected"] @@
                    [skew_angle |-> _detect_skew(scoreCall.lines, scoreCall.contours,
                                                 scoreCall.hough_ok, scoreCall.contours_ok)]
    /\ UNCHANGED <<mergeCall, pixelCall, st, handler, analyzers, invocations>>

NextSkew == DetectSkew

SpecSkew == InitSkew /\ [][NextSkew]_vars

\* C24: the skew confidence is min(1.0, candidates / 10), a number between 0 and 1
\* (here in tenths: min(10, candidates), between 0 and 10)
SkewConfidenceClamped ==
    scoreCall.pc = "detected" =>
        LET n == Len(PooledAngles(scoreCall.lines, scoreCall.contours,
                                  scoreCall.hough_ok, scoreCall.contours_ok))
        IN /\ scoreCall.skew_angle.confidence = Min(10, n)
           /\ scoreCall.skew_angle.confidence \in 0..10

(***************************************************************************)
(* What the user options can reach.                                        *)
(***************************************************************************)
\* the report without final_preprocessing_options
AnalysisPart(report) ==
    [ k \in DOMAIN report \ {"final_preprocessing_options"} |-> report[k] ]

\* C25: two invocations on the same picture that have returned agree on every field
\* of the report except final_preprocessing_options and on the image pass 1
\* returned, whatever options each was given
UserOptionsOnlyReachPass2 ==
    invocations # InvocationsIdle =>
        \A c, d \in Callers :
            LET x == invocations.call[c]
                y == invocations.call[d]
            IN (x.pc = "done" /\ y.pc = "done" /\ x.input.picture = y.input.picture) =>
                  /\ AnalysisPart(x.report) = AnalysisPart(y.report)
                  /\ invocations.heap[x.pass1_img] = invocations.heap[y.pass1_img]

\* the same photo without options and with the auto brightness overridden: the
\* merged options and the bytes differ
UserOptionsOnlyReachPass2Witness ==
    /\ invocations # InvocationsIdle
    /\ \A c \in Callers : invocations.call[c].pc = "done"
    /\ invocations.call["a"].input = [picture |-> "photo", preprocessing_options |-> PyNone]
    /\ invocations.call["b"].input.picture = "photo"
    /\ invocations.call["b"].input.preprocessing_options = PyDict(Map1("brightness", PyInt(0)))
    /\ invocations.call["a"].report.final_preprocessing_options
         # invocations.call["b"].report.final_preprocessing_options
    /\ invocations.call["a"].bytes # invocations.call["b"].bytes
    /\ invocations.call["a"].report.auto_preprocessing_options # EmptyMap

(***************************************************************************)
(* The two rule tables on brightness and contrast.                         *)
(***************************************************************************)
OpsNamed(img, name) == SelectSeq(img.ops, LAMBDA o : o.name = name)

\* the caller's options leave the key to the auto options
NoOverride(key) ==
    /\ st.preprocessing_options.t \in {"none", "dict"}
    /\ key \notin DOMAIN st.preprocessing_options.d

\* C26: the brightness recommendation is enabled iff the auto options have a
\* brightness key, with the same adjustment, and an enabled contrast recommendation
\* goes with an auto contrast of 30; so when the caller overrides neither and nothing
\* raises, the returned image went through the brightness adjustment twice and
\* through the 30% contrast twice
TablesAgreeAndApplyTwice ==
    (st.entry = "dynamic_preprocess_image" /\ st.pc = "done") =>
        LET recs == st.analysis.recommendations
            b == Op("brightness", <<recs.brightness.params["adjustment"]>>)
            c == Op("contrast", <<30>>)
        IN /\ recs.brightness.enabled <=> "brightness" \in DOMAIN st.auto_opts
           /\ recs.brightness.enabled =>
                 st.auto_opts["brightness"] = PyInt(recs.brightness.params["adjustment"])
           /\ recs.contrast.enabled =>
                 /\ "contrast" \in DOMAIN st.auto_opts
                 /\ st.auto_opts["contrast"] = PyInt(30)
           /\ (recs.brightness.enabled /\ NoOverride("brightness") /\ st.raised = {}) =>
                 OpsNamed(st.bytes, "brightness") = <<b, b>>
           /\ (recs.contrast.enabled /\ NoOverride("contrast") /\ st.raised = {}) =>
                 OpsNamed(st.bytes, "contrast") = <<c, c>>

\* an overexposed, low-contrast image without options: -20 twice and 30% twice
TablesAgreeAndApplyTwiceWitness ==
    /\ st.entry = "dynamic_preprocess_image"
    /\ st.pc = "done"
    /\ st.preprocessing_options = PyNone
    /\ st.raised = {}
    /\ st.analysis.brightness_level.level = "overexposed"
    /\ st.analysis.contrast_quality.level = "low"
    /\ OpsNamed(st.bytes, "brightness")
         = <<Op("brightness", <<-20>>), Op("brightness", <<-20>>)>>
    /\ Len(OpsNamed(st.bytes, "contrast")) = 2

(***************************************************************************)
(* Where deskew and sharpen stand in the step list.                        *)
(***************************************************************************)
\* C27: in the step list of every generated recommendation set deskew, when
\* enabled, is the first step and sharpen, when enabled, the last, and every step
\* has a priority from 1 to 3
DeskewFirstSharpenLast ==
    scoreCall.pc \in {"planned", "derived"} =>
        LET recs == scoreCall.analysis.recommendations
            steps == scoreCall.steps
        IN /\ recs.deskew.enabled => (steps # <<>> /\ steps[1].name = "deskew")
           /\ recs.sharpen.enabled => (steps # <<>> /\ steps[Len(steps)].name = "sharpen")
           /\ \A i \in 1 .. Len(steps) :
                 /\ steps[i].priority \in 1..3
                 /\ recs[steps[i].name].enabled
           /\ \A k \in Operators : recs[k].enabled => \E i \in 1 .. Len(steps) : steps[i].name = k

\* a medium skew ties with contrast and brightness at priority 2, sharpen ties with
\* a medium denoise at priority 1
DeskewFirstSharpenLastWitness ==
    /\ scoreCall.pc = "planned"
    /\ scoreCall.analysis.skew_angle.level = "medium"
    /\ StepNames(scoreCall.steps) = <<"deskew", "contrast", "brightness", "denoise", "sharpen">>
    /\ scoreCall.steps[1].priority = 2
    /\ scoreCall.steps[4].priority = 1

(***************************************************************************)
(* The range of the quality score.                                         *)
(***************************************************************************)
\* C29: for every combination of levels the sum of 50 and the five table entries
\* lies in [20, 100], quality_score is that sum unchanged by the clamp, and no
\* quality_score is below 20
ScoreNeverClamped ==
    scoreCall.pc \in {"analyzed", "planned", "derived"} =>
        LET l == scoreCall.levels
            sum == 50 + ContrastBonus(l.contrast_quality.level)
                      + BrightnessBonus(l.brightness_level.level)
                      + NoisePenalty(l.noise_level.level)
                      + BlurBonus(l.blur_level.level)
                      + SkewPenalty(l.skew_angle.level)
        IN /\ 20 <= sum /\ sum <= 100
           /\ scoreCall.analysis.quality_score = sum
           /\ scoreCall.analysis.quality_score >= 20

\* the worst case: low contrast, very dark, high noise, blurry, high skew scores 20
ScoreNeverClampedWitness ==
    /\ scoreCall.pc = "analyzed"
    /\ scoreCall.levels.contrast_quality.level = "low"
    /\ scoreCall.levels.brightness_level.level = "very_dark"
    /\ scoreCall.levels.noise_level.level = "high"
    /\ scoreCall.levels.blur_level.level = "blurry"
    /\ scoreCall.levels.skew_angle.level = "high"
    /\ scoreCall.analysis.quality_score = 20

(***************************************************************************)
(* The merge on dict objects: a dict is an object on a heap, a dict-valued *)
(* entry holds a reference to another object, dict(x) makes a new object   *)
(* with the same entries, and x.update(y) changes the object x in place.   *)
(***************************************************************************)
Ref(address) == [t |-> "ref", n |-> address, d |-> <<>>]

IsRef(cell) == cell.t = "ref"

\* the entries of a new dict object holding the mapping m: a nested dict becomes an
\* object of its own
RECURSIVE StoreCells(_, _, _, _)
StoreCells(heap, m, keys, cells) ==
    IF keys = {} THEN [heap |-> heap, cells |-> cells]
    ELSE LET k == CHOOSE x \in keys : TRUE IN
         IF IsDict(m[k])
         THEN LET r == NewObject(heap, m[k].d)
              IN StoreCells(r.heap, m, keys \ {k}, DictUpdate(cells, Map1(k, Ref(r.ref))))
         ELSE StoreCells(heap, m, keys \ {k}, DictUpdate(cells, Map1(k, m[k])))

\* a dict object holding the mapping m
StoreDict(heap, m) ==
    LET c == StoreCells(heap, m, DOMAIN m, EmptyMap) IN NewObject(c.heap, c.cells)

\* the mapping a dict object holds, nested dicts included
Deref(heap, ref) ==
    [k \in DOMAIN heap[ref] |->
        IF IsRef(heap[ref][k]) THEN PyDict(heap[heap[ref][k].n]) ELSE heap[ref][k]]

\* mutant: the nested dict of merged is updated in place, `merged[k].update(v)`
RECURSIVE MergeLoopInPlace(_, _, _, _)
MergeLoopInPlace(heap, merged, user_opts, keys) ==
    IF keys = {} THEN heap
    ELSE LET k == CHOOSE x \in keys : TRUE
             v == heap[user_opts][k]
         IN IF IsRef(v) /\ k \in DOMAIN heap[merged] /\ IsRef(heap[merged][k])
            THEN MergeLoopInPlace(
                    [heap EXCEPT ![heap[merged][k].n] = DictUpdate(@, heap[v.n])],
                    merged, user_opts, keys \ {k})
            ELSE MergeLoopInPlace(
                    [heap EXCEPT ![merged] = DictUpdate(@, Map1(k, v))],
                    merged, user_opts, keys \ {k})

\* the loop of lines 478-484 over the keys of user_opts still to visit
RECURSIVE MergeLoop(_, _, _, _)
MergeLoop(heap, merged, user_opts, keys) ==
    IF keys = {} THEN heap
    ELSE LET k == CHOOSE x \in keys : TRUE
             v == heap[user_opts][k]
         IN IF IsRef(v) /\ k \in DOMAIN heap[merged] /\ IsRef(heap[merged][k])
            THEN LET m == NewObject(heap, DictUpdate(heap[heap[merged][k].n], heap[v.n]))
                 IN MergeLoop(
                       [m.heap EXCEPT ![merged] = DictUpdate(@, Map1(k, Ref(m.ref)))],
                       merged, user_opts, keys \ {k})
            ELSE MergeLoop(
                    [heap EXCEPT ![merged] = DictUpdate(@, Map1(k, v))],
                    merged, user_opts, keys \ {k})

\* _merge_preprocessing_options on references: the heap after the call and the
\* reference it returns; user_opts is NoRef for None
MergeOnHeap(heap, auto_opts, user_opts) ==
    LET merged == NewObject(heap, heap[auto_opts]) IN
    IF user_opts = NoRef \/ DOMAIN heap[user_opts] = {} THEN merged
    ELSE [ heap |-> MergeLoop(merged.heap, merged.ref, user_opts, DOMAIN heap[user_opts]),
           ref |-> merged.ref ]

InitMergeHeap ==
    /\ \E a \in MergeMappings, u \in {PyNone} \cup {PyDict(m) : m \in MergeMappings} :
          LET auto == StoreDict(<<>>, a)
              user == IF u = PyNone THEN [heap |-> auto.heap, ref |-> NoRef]
                      ELSE StoreDict(auto.heap, u.d)
          IN mergeCall = [ pc |-> "heap_call", auto_opts |-> a, user_opts |-> u,
                           merged |-> EmptyMap, heap |-> user.heap, before |-> user.heap,
                           auto_ref |-> auto.ref, user_ref |-> user.ref,
                           merged_ref |-> NoRef ]
    /\ scoreCall = ScoreIdle
    /\ pixelCall = PixelIdle
    /\ st = StIdle
    /\ RestIdle

MergeHeap ==
    /\ mergeCall.pc = "heap_call"
    /\ LET r == MergeOnHeap(mergeCall.heap, mergeCall.auto_ref, mergeCall.user_ref) IN
       mergeCall' = [mergeCall EXCEPT
          !.pc = "heap_returned",
          !.heap = r.heap,
          !.merged_ref = r.ref,
          !.merged = Deref(r.heap, r.ref)]
    /\ UNCHANGED <<scoreCall, pixelCall, st, handler, analyzers, invocations>>

NextMergeHeap == MergeHeap

SpecMergeHeap == InitMergeHeap /\ [][NextMergeHeap]_vars

\* C30: after the merge every dict object that existed before it, the nested dicts
\* of auto_opts and of user_opts included, holds what it held before; the returned
\* mapping is a new object holding the merged options; so auto_opts still reads as
\* the derived options
MergeLeavesInputsAlone ==
    mergeCall.pc = "heap_returned" =>
        /\ SubSeq(mergeCall.heap, 1, Len(mergeCall.before)) = mergeCall.before
        /\ Deref(mergeCall.heap, mergeCall.auto_ref) = mergeCall.auto_opts
        /\ mergeCall.user_ref # NoRef =>
              Deref(mergeCall.heap, mergeCall.user_ref) = mergeCall.user_opts.d
        /\ mergeCall.merged_ref > Len(mergeCall.before)
        /\ mergeCall.merged_ref \notin {mergeCall.auto_ref, mergeCall.user_ref}
        /\ mergeCall.merged =
              _merge_preprocessing_options(mergeCall.auto_opts, mergeCall.user_opts)

\* the user overrides the strength inside the auto denoise dict: merged has the new
\* strength, auto_opts the old one
MergeLeavesInputsAloneWitness ==
    /\ mergeCall.pc = "heap_returned"
    /\ mergeCall.auto_opts =
          Map1("denoise", PyDict(Map3("strength", PyInt(3), "template", PyInt(7),
                                      "search", PyInt(21))))
    /\ mergeCall.user_opts = PyDict(Map1("denoise", PyDict(Map1("strength", PyInt(9)))))
    /\ mergeCall.merged["denoise"].d["strength"] = PyInt(9)
    /\ mergeCall.merged["denoise"].d["template"] = PyInt(7)
    /\ Deref(mergeCall.heap, mergeCall.auto_ref)["denoise"].d["strength"] = PyInt(3)

====
